---- MODULE Spec2Model ----
(***************************************************************************)
(* A model of the Help Scout CLI core: the HelpScoutClient token lifecycle *)
(* and request executor (lib/api-client.ts), the error normalizer          *)
(* (lib/errors.ts), the command handlers and the pagination walker, the    *)
(* conversation summarizers (commands/conversations.ts, mcp-server.ts),    *)
(* the tag operations and the confirmation of `customers delete`.          *)
(*                                                                         *)
(* Encoding of JavaScript values:                                          *)
(*   - a token is a natural number; 0 stands for every falsy token value   *)
(*     (null, undefined, ""), 1..MaxTok are the non-empty tokens;          *)
(*   - a string that is inspected character by character (a message, a     *)
(*     detail) is a sequence of one-character strings; <<>> stands for the *)
(*     empty string and for an absent field alike, since the code only     *)
(*     tests such fields for truthiness;                                   *)
(*   - an `error` name is a TLA+ string, "" when absent or empty;          *)
(*   - a statusCode is a natural number, 0 when absent.                    *)
(***************************************************************************)
EXTENDS Naturals, Sequences, FiniteSets, TLC

\* Number of distinct non-empty token values the token endpoint may issue.
MaxTok == 2

\* The callers that may hold a reference to the one exported client instance
\* (line 482); a command-line invocation is the single caller Command.
Callers == {1, 2}
Command == {1}

VARIABLES
  appId,               \* credential store: an app id is configured
  appSecret,           \* credential store: an app secret is configured
  storedAccessToken,   \* credential store: persisted access token
  storedRefreshToken,  \* credential store: persisted refresh token
  accessToken,         \* HelpScoutClient.accessToken (in-memory cache)
  proc,                \* per caller: position, locals and history of its call
  thrown,              \* error normalizer: the value handed to it
  emitted,             \* error normalizer: the payloads written by outputJson
  exited,              \* error normalizer: process.exit has been called
  sample,              \* sanitizer: the message handed to it, and its secrets
  msgResult,           \* sanitizer: what sanitizeErrorMessage returned
  apiResult,           \* sanitizer: what sanitizeApiError returned
  command,             \* command handler: its position and options
  walk,                \* pagination walker: its position, cursor and items
  listing,             \* remote listing: its pages
  threads,             \* summarizer: the embedded threads handed to it
  threadInfo,          \* summarizer: what extractThreadInfo returned
  conversations,       \* aggregator: the conversations handed to it
  summaries,           \* aggregator: what each call of it returned
  remoteTags,          \* remote conversation: its tag list
  tagOp,               \* tag operation: the last one and the tags before it
  deletion,            \* customers delete: its position, options and calls
  remoteCustomers      \* remote account: the customers it holds

storeVars == <<appId, appSecret, storedAccessToken, storedRefreshToken>>
clientVars == <<appId, appSecret, storedAccessToken, storedRefreshToken,
                accessToken, proc>>
errVars == <<thrown, emitted, exited>>
sanitizerVars == <<sample, msgResult, apiResult>>
walkVars == <<walk, listing>>
summaryVars == <<threads, threadInfo>>
surfaceVars == <<conversations, summaries, remoteTags, tagOp, deletion,
                 remoteCustomers>>
\* What the client and the normalizer never touch.
restVars == <<sample, msgResult, apiResult, command, walk, listing, threads,
              threadInfo, surfaceVars>>
vars == <<appId, appSecret, storedAccessToken, storedRefreshToken,
          accessToken, proc, thrown, emitted, exited, sample, msgResult,
          apiResult, command, walk, listing, threads, threadInfo,
          conversations, summaries, remoteTags, tagOp, deletion,
          remoteCustomers>>

Tokens == 0..MaxTok
RealTokens == 1..MaxTok

(***************************************************************************)
(* Strings                                                                 *)
(***************************************************************************)
\* 'Not configured. Please run: helpscout auth login' (api-client.ts)
MsgNotConfigured ==
  <<"N", "o", "t", " ", "c", "o", "n", "f", "i", "g", "u", "r", "e", "d",
    ".", " ", "P", "l", "e", "a", "s", "e", " ", "r", "u", "n", ":", " ",
    "h", "e", "l", "p", "s", "c", "o", "u", "t", " ", "a", "u", "t", "h",
    " ", "l", "o", "g", "i", "n">>

\* 'An unexpected error occurred'
MsgUnexpected ==
  <<"A", "n", " ", "u", "n", "e", "x", "p", "e", "c", "t", "e", "d", " ",
    "e", "r", "r", "o", "r", " ", "o", "c", "c", "u", "r", "r", "e", "d">>

\* 'An error occurred'
MsgAnErrorOccurred ==
  <<"A", "n", " ", "e", "r", "r", "o", "r", " ", "o", "c", "c", "u", "r",
    "r", "e", "d">>

\* the text enhanceRateLimitMessage appends
RateLimitNote ==
  <<"\n", "\n", "H", "e", "l", "p", " ", "S", "c", "o", "u", "t", " ", "A",
    "P", "I", " ", "l", "i", "m", "i", "t", ":", " ", "2", "0", "0", " ",
    "r", "e", "q", "u", "e", "s", "t", "s", "/", "m", "i", "n", "u", "t",
    "e", ".", " ", "W", "a", "i", "t", " ", "a", " ", "m", "o", "m", "e",
    "n", "t", " ", "a", "n", "d", " ", "r", "e", "t", "r", "y", ".">>

\* '[REDACTED]'
Redacted ==
  <<"[", "R", "E", "D", "A", "C", "T", "E", "D", "]">>

\* '...'
Ellipsis ==
  <<".", ".", ".">>

\* '; '
JoinSep ==
  <<";", " ">>

\* message of the TypeError a failed fetch rejects with
MsgFetchFailed ==
  <<"f", "e", "t", "c", "h", " ", "f", "a", "i", "l", "e", "d">>

\* message of the SyntaxError response.json() rejects with
MsgJsonSyntax ==
  <<"U", "n", "e", "x", "p", "e", "c", "t", "e", "d", " ", "e", "n", "d",
    " ", "o", "f", " ", "J", "S", "O", "N", " ", "i", "n", "p", "u", "t">>

\* a message with no sensitive pattern
MsgPlain ==
  <<"C", "o", "n", "v", "e", "r", "s", "a", "t", "i", "o", "n", " ", "n",
    "o", "t", " ", "f", "o", "u", "n", "d">>

\* a message that carries a secret
MsgSecret ==
  <<"b", "a", "d", " ", "t", "o", "k", "e", "n", "=", "a", "b", "c", "1",
    "2">>

\* an _embedded.errors message
MsgRequired ==
  <<"S", "u", "b", "j", "e", "c", "t", " ", "i", "s", " ", "r", "e", "q",
    "u", "i", "r", "e", "d">>

\* an _embedded.errors path
PathBody ==
  <<"b", "o", "d", "y">>

\* an error_description
MsgInvalidClient ==
  <<"I", "n", "v", "a", "l", "i", "d", " ", "c", "l", "i", "e", "n", "t",
    " ", "c", "r", "e", "d", "e", "n", "t", "i", "a", "l", "s">>

\* an _embedded.errors message
MsgBodyRequired ==
  <<"B", "o", "d", "y", " ", "i", "s", " ", "r", "e", "q", "u", "i", "r",
    "e", "d">>

\* an _embedded.errors path
PathSubject ==
  <<"s", "u", "b", "j", "e", "c", "t">>

\* a secret value (errors.test.ts)
SecretA ==
  <<"a", "b", "c", "1", "2", "3", "t", "o", "k", "e", "n", "4", "5", "6">>

\* a secret value that uses every character a token may have
SecretB ==
  <<"s", "3", "c", "r", "3", "t", "/", "k", "e", "y", ".", "v", "2", "~",
    "x", "+", "y", "-", "z", "_", "=", "=">>

\* the forms a secret is written in, each followed by its value
FormBearer ==
  <<"B", "e", "a", "r", "e", "r", " ">>

FormBearerUpper ==
  <<"B", "E", "A", "R", "E", "R", " ", " ">>

FormToken ==
  <<"t", "o", "k", "e", "n", "=">>

FormTokenColon ==
  <<"T", "o", "k", "e", "n", ":", " ">>

FormClientSecret ==
  <<"c", "l", "i", "e", "n", "t", "_", "s", "e", "c", "r", "e", "t", "=">>

FormClientDash ==
  <<"C", "L", "I", "E", "N", "T", "-", "S", "E", "C", "R", "E", "T", ":",
    " ">>

FormAuthorization ==
  <<"a", "u", "t", "h", "o", "r", "i", "z", "a", "t", "i", "o", "n", ":",
    " ", "b", "e", "a", "r", "e", "r", " ">>

FormAuthorizationCaps ==
  <<"A", "u", "t", "h", "o", "r", "i", "z", "a", "t", "i", "o", "n", ":",
    "B", "e", "a", "r", "e", "r", " ">>

\* what a message says before the secret
PrefixFailed ==
  <<"F", "a", "i", "l", "e", "d", " ", "w", "i", "t", "h", " ">>

PrefixInvalidBearer ==
  <<"I", "n", "v", "a", "l", "i", "d", " ", "b", "e", "a", "r", "e", "r",
    " ">>

\* what a message says after the secret
SuffixRejected ==
  <<" ", "r", "e", "j", "e", "c", "t", "e", "d">>

\* between two secrets of one message
JoinWith ==
  <<" ", "w", "i", "t", "h", " ">>

\* the head of the long message of errors.test.ts
PrefixError ==
  <<"E", "r", "r", "o", "r", ":", " ">>


UpperCase ==
  <<"A", "B", "C", "D", "E", "F", "G", "H", "I", "J", "K", "L", "M",
    "N", "O", "P", "Q", "R", "S", "T", "U", "V", "W", "X", "Y", "Z">>

LowerCase ==
  <<"a", "b", "c", "d", "e", "f", "g", "h", "i", "j", "k", "l", "m",
    "n", "o", "p", "q", "r", "s", "t", "u", "v", "w", "x", "y", "z">>

DigitChars == {"0", "1", "2", "3", "4", "5", "6", "7", "8", "9"}

\* The regular-expression class \w.
WordChars ==
  {UpperCase[i] : i \in 1..26} \cup {LowerCase[i] : i \in 1..26}
    \cup DigitChars \cup {"_"}

\* The regular-expression class [\w\-._~+/] that every pattern ends with.
SecretChars == WordChars \cup {"-", ".", "_", "~", "+", "/"}

\* The regular-expression class \s (the members that occur in messages).
SpaceChars == {" ", "\t", "\n", "\r"}

\* Case folding of the /i flag on one character.
ToLower(c) ==
  IF \E i \in 1..26 : UpperCase[i] = c
    THEN LowerCase[CHOOSE i \in 1..26 : UpperCase[i] = c]
    ELSE c

\* The keyword kw (lower case) occurs in s at index i, in any letter case.
MatchesAt(s, i, kw) ==
  /\ i + Len(kw) - 1 <= Len(s)
  /\ \A k \in 1..Len(kw) : ToLower(s[i + k - 1]) = kw[k]

\* The least member of the set of indices found, or none when it is empty.
Least(found, none) ==
  IF found = {} THEN none
  ELSE CHOOSE j \in found : \A k \in found : j <= k

\* The first index from i on whose character is not in class (Len(s)+1 if
\* none): where a greedy class* that starts at i stops.
RunEnd(s, i, class) ==
  IF i > Len(s) THEN i
  ELSE Least({j \in i..Len(s) : s[j] \notin class}, Len(s) + 1)

\* [\w\-._~+/]+=* at index i: the index after the match, 0 if none.
SecretEnd(s, i) ==
  LET j == RunEnd(s, i, SecretChars)
  IN  IF j = i THEN 0 ELSE RunEnd(s, j, {"="})

KwBearer == <<"b", "e", "a", "r", "e", "r">>
KwToken == <<"t", "o", "k", "e", "n">>
KwClient == <<"c", "l", "i", "e", "n", "t">>
KwSecret == <<"s", "e", "c", "r", "e", "t">>
KwAuthorization ==
  <<"a", "u", "t", "h", "o", "r", "i", "z", "a", "t", "i", "o", "n", ":">>

\* /Bearer\s+[\w\-._~+/]+=*/gi at index i: the index after the match, or 0.
BearerEnd(s, i) ==
  IF ~MatchesAt(s, i, KwBearer) THEN 0
  ELSE LET j == i + Len(KwBearer)
           k == RunEnd(s, j, SpaceChars)
       IN  IF k = j THEN 0 ELSE SecretEnd(s, k)

\* /token[=:]\s*[\w\-._~+/]+=*/gi at index i.
TokenEnd(s, i) ==
  IF ~MatchesAt(s, i, KwToken) THEN 0
  ELSE LET j == i + Len(KwToken)
       IN  IF j <= Len(s) /\ s[j] \in {"=", ":"}
             THEN SecretEnd(s, RunEnd(s, j + 1, SpaceChars))
             ELSE 0

\* /client[_-]?secret[=:]\s*[\w\-._~+/]+=*/gi at index i.
ClientSecretEnd(s, i) ==
  IF ~MatchesAt(s, i, KwClient) THEN 0
  ELSE LET j == i + Len(KwClient)
           k == IF j <= Len(s) /\ s[j] \in {"_", "-"} THEN j + 1 ELSE j
       IN  IF ~MatchesAt(s, k, KwSecret) THEN 0
           ELSE LET m == k + Len(KwSecret)
                IN  IF m <= Len(s) /\ s[m] \in {"=", ":"}
                      THEN SecretEnd(s, RunEnd(s, m + 1, SpaceChars))
                      ELSE 0

\* /authorization:\s*bearer\s+[\w\-._~+/]+=*/gi at index i.
AuthorizationEnd(s, i) ==
  IF ~MatchesAt(s, i, KwAuthorization) THEN 0
  ELSE BearerEnd(s, RunEnd(s, i + Len(KwAuthorization), SpaceChars))

\* The sensitivePatterns array, in its order.
sensitivePatterns(n, s, i) ==
  CASE n = 1 -> BearerEnd(s, i)
    [] n = 2 -> TokenEnd(s, i)
    [] n = 3 -> ClientSecretEnd(s, i)
    [] n = 4 -> AuthorizationEnd(s, i)

\* Where the leftmost match of pattern n from index i on starts, or 0.
FirstMatch(n, s, i) ==
  Least({j \in i..Len(s) : sensitivePatterns(n, s, j) # 0}, 0)

\* String.prototype.replace(pattern n, '[REDACTED]') from index i on: every
\* match, scanning left to right, each scan resuming after the last match.
\* The text up to the leftmost match, which starts at first, is kept, the
\* match becomes the marker, and the scan goes on behind it.
RECURSIVE replace(_, _, _)
Splice(n, s, i, first) ==
  IF first = 0 THEN SubSeq(s, i, Len(s))
  ELSE SubSeq(s, i, first - 1) \o Redacted
         \o replace(n, s, sensitivePatterns(n, s, first))

replace(n, s, i) == Splice(n, s, i, FirstMatch(n, s, i))

\* The length cap of a sanitized message.
MaxDetail == 500

\* lines 33-36: every pattern replaced, in the order of the array.
ReplaceAll(message) ==
  replace(4, replace(3, replace(2, replace(1, message, 1), 1), 1), 1)

\* The cap applied from 500 characters on instead of above 500.
Cap_FromCap(sanitized) ==
  IF Len(sanitized) >= MaxDetail
    THEN SubSeq(sanitized, 1, MaxDetail) \o Ellipsis
    ELSE sanitized

\* line 38
Cap(sanitized) ==
  IF Len(sanitized) > MaxDetail
    THEN SubSeq(sanitized, 1, MaxDetail) \o Ellipsis
    ELSE sanitized

sanitizeErrorMessage(message) == Cap(ReplaceAll(message))

(***************************************************************************)
(* Thrown values and the error normalizer (lib/errors.ts)                  *)
(***************************************************************************)

\* A thrown JavaScript value, by the fields the normalizer inspects.
Value(isObject, isCli, error, description, message, embedded, statusCode) ==
  [isObject |-> isObject, isCli |-> isCli, error |-> error,
   error_description |-> description, message |-> message,
   embedded |-> embedded, statusCode |-> statusCode]

\* A thrown value that is no object (a string, a number, null, undefined).
NonObject == Value(FALSE, FALSE, "", <<>>, <<>>, <<>>, 0)

\* The empty object {}.
EmptyObject == Value(TRUE, FALSE, "", <<>>, <<>>, <<>>, 0)

\* new HelpScoutCliError(message, statusCode)
HelpScoutCliError(message, statusCode) ==
  Value(TRUE, TRUE, "", <<>>, message, <<>>, statusCode)

\* An Error of the runtime (TypeError, SyntaxError): an object with a message.
RuntimeError(message) == Value(TRUE, FALSE, "", <<>>, message, <<>>, 0)

\* The table with its `conflict` entry lost.
ERROR_STATUS_CODES_NoConflict(name) ==
  CASE name = "bad_request" -> 400
    [] name = "unauthorized" -> 401
    [] name = "forbidden" -> 403
    [] name = "not_found" -> 404
    [] name = "too_many_requests" -> 429
    [] name = "internal_server_error" -> 500
    [] name = "service_unavailable" -> 503
    [] OTHER -> 0

ERROR_STATUS_CODES(name) ==
  CASE name = "bad_request" -> 400
    [] name = "unauthorized" -> 401
    [] name = "forbidden" -> 403
    [] name = "not_found" -> 404
    [] name = "conflict" -> 409
    [] name = "too_many_requests" -> 429
    [] name = "internal_server_error" -> 500
    [] name = "service_unavailable" -> 503
    [] OTHER -> 0

isErrorObject(value) == value.isObject

\* e.message || e.path of one _embedded.errors entry.
EntryText(e) == IF e.message # <<>> THEN e.message ELSE e.path

\* errors.map(e => e.message || e.path).filter(Boolean).join('; ')
RECURSIVE JoinErrors(_)
JoinErrors(errors) ==
  IF errors = <<>> THEN <<>>
  ELSE LET head == EntryText(Head(errors))
           rest == JoinErrors(Tail(errors))
       IN  IF head = <<>> THEN rest
           ELSE IF rest = <<>> THEN head
           ELSE head \o JoinSep \o rest

\* sanitizeApiError that prefers `message` to `error_description`.
sanitizeApiError_MessageFirst(error) ==
  IF ~isErrorObject(error)
    THEN [name |-> "api_error", detail |-> MsgAnErrorOccurred]
    ELSE LET detail ==
               IF error.message # <<>> THEN error.message
               ELSE IF error.error_description # <<>>
                 THEN error.error_description
               ELSE IF Len(error.embedded) > 0 THEN JoinErrors(error.embedded)
               ELSE MsgAnErrorOccurred
         IN  [name |-> IF error.error # "" THEN error.error ELSE "api_error",
              detail |-> sanitizeErrorMessage(detail)]

sanitizeApiError(error) ==
  IF ~isErrorObject(error)
    THEN [name |-> "api_error", detail |-> MsgAnErrorOccurred]
    ELSE LET detail ==
               IF error.error_description # <<>> THEN error.error_description
               ELSE IF error.message # <<>> THEN error.message
               ELSE IF Len(error.embedded) > 0 THEN JoinErrors(error.embedded)
               ELSE MsgAnErrorOccurred
         IN  [name |-> IF error.error # "" THEN error.error ELSE "api_error",
              detail |-> sanitizeErrorMessage(detail)]

enhanceRateLimitMessage(detail) == detail \o RateLimitNote

\* What formatErrorResponse hands to outputJson before it calls
\* process.exit(1); exitCode is the status the process ends with.
formatErrorResponse(name, detail, statusCode) ==
  [name |-> name,
   detail |-> IF name = "too_many_requests"
                THEN enhanceRateLimitMessage(detail)
                ELSE detail,
   statusCode |-> statusCode,
   exitCode |-> 1]

\* a || b on numbers.
OrElse(a, b) == IF a # 0 THEN a ELSE b

\* The payloads written up to the first process.exit: formatErrorResponse
\* returns never, so nothing after the first call of it runs.
UntilExit(calls) ==
  IF \E i \in 1..Len(calls) : calls[i].exitCode # 0
    THEN SubSeq(calls, 1, CHOOSE i \in 1..Len(calls) :
                            /\ calls[i].exitCode # 0
                            /\ \A j \in 1..(i - 1) : calls[j].exitCode = 0)
    ELSE calls

\* handleHelpScoutError with the `error` field tested before the instanceof.
handleHelpScoutError_ApiFirst(error) ==
  LET nonObject ==
        IF ~isErrorObject(error)
          THEN <<formatErrorResponse("unknown_error", MsgUnexpected, 1)>>
          ELSE <<>>
      cli ==
        IF error.isCli
          THEN <<formatErrorResponse("cli_error",
                   sanitizeErrorMessage(error.message),
                   OrElse(error.statusCode, 1))>>
          ELSE <<>>
      api ==
        IF error.error # ""
          THEN LET hsError == sanitizeApiError(error)
               IN  <<formatErrorResponse(hsError.name, hsError.detail,
                       OrElse(error.statusCode,
                         OrElse(ERROR_STATUS_CODES(hsError.name), 500)))>>
          ELSE <<>>
      unknown ==
        <<formatErrorResponse("unknown_error",
            sanitizeErrorMessage(IF error.message # <<>> THEN error.message
                                 ELSE MsgUnexpected),
            OrElse(error.statusCode, 1))>>
  IN  UntilExit(nonObject \o api \o cli \o unknown)

\* handleHelpScoutError(error): the sequence of payloads it writes. Its four
\* statements run in order, each guarded by its own `if`.
handleHelpScoutError(error) ==
  LET nonObject ==
        IF ~isErrorObject(error)
          THEN <<formatErrorResponse("unknown_error", MsgUnexpected, 1)>>
          ELSE <<>>
      cli ==
        IF error.isCli
          THEN <<formatErrorResponse("cli_error",
                   sanitizeErrorMessage(error.message),
                   OrElse(error.statusCode, 1))>>
          ELSE <<>>
      api ==
        IF error.error # ""
          THEN LET hsError == sanitizeApiError(error)
               IN  <<formatErrorResponse(hsError.name, hsError.detail,
                       OrElse(error.statusCode,
                         OrElse(ERROR_STATUS_CODES(hsError.name), 500)))>>
          ELSE <<>>
      unknown ==
        <<formatErrorResponse("unknown_error",
            sanitizeErrorMessage(IF error.message # <<>> THEN error.message
                                 ELSE MsgUnexpected),
            OrElse(error.statusCode, 1))>>
  IN  UntilExit(nonObject \o cli \o api \o unknown)

(***************************************************************************)
(* The remote API as the client sees it                                    *)
(***************************************************************************)

\* response.ok
Ok(status) == status >= 200 /\ status <= 299

\* HTTP statuses the endpoints answer with.
Statuses == {200, 204, 401, 404, 429, 500}

\* JSON objects a response body may parse to.
Bodies ==
  {EmptyObject,
   Value(TRUE, FALSE, "not_found", <<>>, MsgPlain, <<>>, 0),
   Value(TRUE, FALSE, "too_many_requests", <<>>, <<>>, <<>>, 418)}

\* A response: its status, whether its body parses as JSON, and the parsed
\* body. A 204 carries no body.
Responses ==
  {r \in [status : Statuses, parseable : BOOLEAN, body : Bodies] :
     /\ r.status = 204 => ~r.parseable
     /\ ~r.parseable => r.body = EmptyObject}

\* A 2xx answer of the token endpoint: {access_token, refresh_token?}.
TokenResponses == [access_token : RealTokens, refresh_token : Tokens]

(***************************************************************************)
(* HelpScoutClient (lib/api-client.ts)                                     *)
(***************************************************************************)

NoData == [access_token |-> 0, refresh_token |-> 0]

NoResponse == [status |-> 0, parseable |-> FALSE, body |-> EmptyObject]

NoResult == [kind |-> "none", token |-> 0, value |-> NonObject, at |-> "none"]

\* A caller that is in no call of the client.
IdleFrame ==
  [pc |-> "idle", op |-> "none",
   retry |-> TRUE,            \* request: options.retry
   token |-> 0,               \* request: const token
   ratFrom |-> "none",        \* who awaits refreshAccessToken
   storedToken |-> 0,         \* getAccessToken: const storedToken
   refreshToken |-> 0,        \* refreshAccessToken: const refreshToken
   configured |-> FALSE,      \* refreshAccessToken: appId && appSecret
   data |-> NoData,           \* refreshAccessToken: const data
   response |-> NoResponse,   \* request: const response (the latest one)
   \* history of the current top-level call
   calls |-> <<>>,            \* network calls issued, in order
   statuses |-> <<>>,         \* statuses of the API responses received
   bodyReads |-> 0,           \* response.json() calls on API responses
   grants |-> <<>>,           \* latest refreshAccessToken: grants it sent
   refreshFailed |-> FALSE,   \* latest refreshAccessToken: refresh grant failed
   reauth |-> 0,              \* token the forced re-authentication returned
   entry |-> [accessToken |-> 0, storedAccessToken |-> 0,
              storedRefreshToken |-> 0],
   \* latest refreshAccessToken: what the store held when it was called
   ratEntry |-> [storedAccessToken |-> 0, storedRefreshToken |-> 0],
   result |-> NoResult]

\* A caller enters a method of the client from outside.
Begin(op) ==
  [IdleFrame EXCEPT !.op = op,
     !.entry = [accessToken |-> accessToken,
                storedAccessToken |-> storedAccessToken,
                storedRefreshToken |-> storedRefreshToken]]

\* The top-level call settles: its locals die, its history stays.
Finish(f, result) ==
  [f EXCEPT !.pc = "idle", !.result = result, !.token = 0, !.ratFrom = "none",
            !.storedToken = 0, !.data = NoData]

Returned(token, value) ==
  [kind |-> "return", token |-> token, value |-> value, at |-> "none"]

\* The top-level call rejects with value, thrown at label at; no method of the
\* client catches what refreshAccessToken or request throw.
Throw(f, value, at) ==
  Finish(f, [kind |-> "throw", token |-> 0, value |-> value, at |-> at])

ApiCall(token) == [kind |-> "api", token |-> token]
TokenCall(grant) == [kind |-> grant, token |-> 0]

\* fetch(TOKEN_URL, {grant_type: grant, ...}) is sent (lines 89-98, 114-122).
SendGrant(f, grant) ==
  [f EXCEPT !.calls = Append(@, TokenCall(grant)), !.grants = Append(@, grant),
            !.pc = IF grant = "refresh_token" THEN "rat_refresh_resp"
                   ELSE "rat_cc_resp"]

\* request lines 185-196: getAccessToken has resolved with token; the call
\* is sent with `Authorization: Bearer ${token}`.
SendRequest(f, token) ==
  [f EXCEPT !.token = token, !.calls = Append(@, ApiCall(token)),
            !.pc = "req_resp"]

\* getAccessToken resolves with token: to request, or to the outside caller.
TokenReturn(f, token) ==
  IF f.op = "request" THEN SendRequest(f, token)
  ELSE Finish(f, Returned(token, EmptyObject))

\* refreshAccessToken resolves with token, to whoever awaits it.
RefreshReturn(f, token) ==
  CASE f.ratFrom = "getAccessToken" -> TokenReturn(f, token)
    [] f.ratFrom = "retry" -> [f EXCEPT !.pc = "req_retry", !.reauth = token]
    [] OTHER -> Finish(f, Returned(token, EmptyObject))

\* A call of refreshAccessToken: it runs to its first await.
CallRefresh(f, from) ==
  [f EXCEPT !.pc = "rat_read", !.ratFrom = from, !.refreshFailed = FALSE,
            !.refreshToken = 0, !.configured = FALSE, !.grants = <<>>,
            !.ratEntry = [storedAccessToken |-> storedAccessToken,
                          storedRefreshToken |-> storedRefreshToken]]

\* A call of getAccessToken (lines 135-140): the cached token if there is
\* one, else it awaits auth.getAccessToken().
CallGetAccessToken(f) ==
  IF accessToken # 0 THEN TokenReturn(f, accessToken)
  ELSE [f EXCEPT !.pc = "gat_store"]

\* clearToken that also wipes the persisted tokens.
clearToken_ClearsStore(p) ==
  /\ proc[p].pc = "idle"
  /\ accessToken' = 0
  /\ storedAccessToken' = 0
  /\ storedRefreshToken' = 0
  /\ proc' = [proc EXCEPT ![p] = Finish(Begin("clearToken"),
                                        Returned(0, EmptyObject))]
  /\ UNCHANGED <<appId, appSecret, errVars, restVars>>

\* lines 71-73
clearToken(p) ==
  /\ proc[p].pc = "idle"
  /\ accessToken' = 0
  /\ proc' = [proc EXCEPT ![p] = Finish(Begin("clearToken"),
                                        Returned(0, EmptyObject))]
  /\ UNCHANGED <<storeVars, errVars, restVars>>

\* lines 135-140, called from outside
getAccessToken(p) ==
  /\ proc[p].pc = "idle"
  /\ proc' = [proc EXCEPT ![p] = CallGetAccessToken(Begin("getAccessToken"))]
  /\ UNCHANGED <<storeVars, accessToken, errVars, restVars>>

\* line 140: auth.getAccessToken() reads the store
GetStoredToken(p) ==
  /\ proc[p].pc = "gat_store"
  /\ proc' = [proc EXCEPT ![p].storedToken = storedAccessToken,
                          ![p].pc = "gat_stored"]
  /\ UNCHANGED <<storeVars, accessToken, errVars, restVars>>

\* lines 141-146
UseStoredToken(p) ==
  /\ proc[p].pc = "gat_stored"
  /\ IF proc[p].storedToken # 0
       THEN /\ accessToken' = proc[p].storedToken
            /\ proc' = [proc EXCEPT ![p] = TokenReturn(@, @.storedToken)]
       ELSE /\ accessToken' = accessToken
            /\ proc' = [proc EXCEPT ![p] = CallRefresh(@, "getAccessToken")]
  /\ UNCHANGED <<storeVars, errVars, restVars>>

\* line 75, called from outside
refreshAccessToken(p) ==
  /\ proc[p].pc = "idle"
  /\ proc' = [proc EXCEPT ![p] = CallRefresh(Begin("refreshAccessToken"),
                                             "direct")]
  /\ UNCHANGED <<storeVars, accessToken, errVars, restVars>>

\* The check with the app secret forgotten.
NotConfigured_OnlyId(id, secret) == ~id

\* line 80: !appId || !appSecret
NotConfigured(id, secret) == ~id \/ ~secret

\* lines 76-98 and 114-122: the three reads of the store, the configuration
\* check, and the first grant sent to the token endpoint.
ReadCredentials(p) ==
  /\ proc[p].pc = "rat_read"
  /\ LET f == [proc[p] EXCEPT !.refreshToken = storedRefreshToken,
                              !.configured = appId /\ appSecret]
     IN  proc' = [proc EXCEPT ![p] =
           IF NotConfigured(appId, appSecret)
             THEN Throw(f, HelpScoutCliError(MsgNotConfigured, 401), "rat_read")
           ELSE IF storedRefreshToken # 0
             THEN SendGrant(f, "refresh_token")
           ELSE SendGrant(f, "client_credentials")]
  /\ UNCHANGED <<storeVars, accessToken, errVars, restVars>>

\* RefreshResponse without the try/catch: a failed refresh is thrown.
RefreshResponse_Surfaces(p) ==
  /\ proc[p].pc = "rat_refresh_resp"
  /\ \/ \E data \in TokenResponses :
          /\ storedAccessToken' = data.access_token
          /\ proc' = [proc EXCEPT ![p].data = data,
                        ![p].pc = IF data.refresh_token # 0
                                    THEN "rat_refresh_setRT"
                                    ELSE "rat_refresh_done"]
     \/ /\ storedAccessToken' = storedAccessToken
        /\ proc' = [proc EXCEPT ![p] =
             Throw([@ EXCEPT !.refreshFailed = TRUE],
                   RuntimeError(MsgFetchFailed), "rat_refresh_resp")]
  /\ UNCHANGED <<appId, appSecret, storedRefreshToken, accessToken, errVars, restVars>>

\* lines 100-102 and 109-122: the answer to the refresh_token grant. A 2xx
\* answer is parsed and its access token persisted; a non-2xx answer or a
\* rejection (of fetch or of response.json()) falls through to the
\* client_credentials grant.
RefreshResponse(p) ==
  /\ proc[p].pc = "rat_refresh_resp"
  /\ \/ \E data \in TokenResponses :
          /\ storedAccessToken' = data.access_token
          /\ proc' = [proc EXCEPT ![p].data = data,
                        ![p].pc = IF data.refresh_token # 0
                                    THEN "rat_refresh_setRT"
                                    ELSE "rat_refresh_done"]
     \/ /\ storedAccessToken' = storedAccessToken
        /\ proc' = [proc EXCEPT ![p] =
             SendGrant([@ EXCEPT !.refreshFailed = TRUE],
                       "client_credentials")]
  /\ UNCHANGED <<appId, appSecret, storedRefreshToken, accessToken, errVars, restVars>>

\* lines 103-105
SetRefreshToken(p) ==
  /\ proc[p].pc = "rat_refresh_setRT"
  /\ storedRefreshToken' = proc[p].data.refresh_token
  /\ proc' = [proc EXCEPT ![p].pc = "rat_refresh_done"]
  /\ UNCHANGED <<appId, appSecret, storedAccessToken, accessToken, errVars, restVars>>

\* RefreshDone without `this.accessToken = data.access_token`.
RefreshDone_NoCache(p) ==
  /\ proc[p].pc = "rat_refresh_done"
  /\ proc' = [proc EXCEPT ![p] = RefreshReturn(@, @.data.access_token)]
  /\ UNCHANGED <<storeVars, accessToken, errVars, restVars>>

\* lines 106-107
RefreshDone(p) ==
  /\ proc[p].pc = "rat_refresh_done"
  /\ accessToken' = proc[p].data.access_token
  /\ proc' = [proc EXCEPT ![p] = RefreshReturn(@, @.data.access_token)]
  /\ UNCHANGED <<storeVars, errVars, restVars>>

\* lines 124-130: the answer to the client_credentials grant. A non-2xx
\* answer is thrown as its parsed body with the status; a rejection of fetch
\* or of response.json() propagates; a 2xx answer is persisted.
ClientCredentialsResponse(p) ==
  /\ proc[p].pc = "rat_cc_resp"
  /\ \/ \E data \in TokenResponses :
          /\ storedAccessToken' = data.access_token
          /\ proc' = [proc EXCEPT ![p].data = data, ![p].pc = "rat_cc_done"]
     \/ \E r \in Responses :
          /\ ~Ok(r.status)
          /\ storedAccessToken' = storedAccessToken
          /\ proc' = [proc EXCEPT ![p] =
               IF r.parseable
                 THEN Throw(@, [r.body EXCEPT !.statusCode = r.status],
                            "rat_cc_resp")
                 ELSE Throw(@, RuntimeError(MsgJsonSyntax), "rat_cc_resp")]
     \/ /\ storedAccessToken' = storedAccessToken
        /\ proc' = [proc EXCEPT ![p] =
             Throw(@, RuntimeError(MsgFetchFailed), "rat_cc_resp")]
  /\ UNCHANGED <<appId, appSecret, storedRefreshToken, accessToken, errVars, restVars>>

\* ClientCredentialsDone without `this.accessToken = data.access_token`.
ClientCredentialsDone_NoCache(p) ==
  /\ proc[p].pc = "rat_cc_done"
  /\ proc' = [proc EXCEPT ![p] = RefreshReturn(@, @.data.access_token)]
  /\ UNCHANGED <<storeVars, accessToken, errVars, restVars>>

\* lines 131-132
ClientCredentialsDone(p) ==
  /\ proc[p].pc = "rat_cc_done"
  /\ accessToken' = proc[p].data.access_token
  /\ proc' = [proc EXCEPT ![p] = RefreshReturn(@, @.data.access_token)]
  /\ UNCHANGED <<storeVars, errVars, restVars>>

\* lines 165-185: a resource method calls request, with retry defaulted to
\* true; it runs up to `await this.getAccessToken()`.
request(p) ==
  /\ proc[p].pc = "idle"
  /\ proc' = [proc EXCEPT ![p] = CallGetAccessToken(Begin("request"))]
  /\ UNCHANGED <<storeVars, accessToken, errVars, restVars>>

\* A retry that is also taken on a rate-limit answer.
Retryable_RateLimit(f, r) == r.status \in {401, 429} /\ f.retry

\* line 198: response.status === 401 && retry
Retryable(f, r) == r.status = 401 /\ f.retry

\* The 204 test left out.
NoContent_Never(r) == FALSE

\* line 204: response.status === 204
NoContent(r) == r.status = 204

\* The error body read without the .catch: the parse failure gets out.
ErrorBody_NoCatch(r) ==
  IF r.parseable THEN r.body ELSE RuntimeError(MsgJsonSyntax)

\* line 209: await response.json().catch(() => ({}))
ErrorBody(r) == IF r.parseable THEN r.body ELSE EmptyObject

\* lines 198-213 applied to response r
HandleResponse(f, r) ==
  LET g == [f EXCEPT !.statuses = Append(@, r.status), !.response = r]
  IN  IF Retryable(f, r)
        THEN CallRefresh(g, "retry")
      ELSE IF NoContent(r)
        THEN Finish(g, Returned(0, EmptyObject))
      ELSE IF ~Ok(r.status)
        THEN Throw([g EXCEPT !.bodyReads = @ + 1],
                   [ErrorBody(r) EXCEPT !.statusCode = r.status],
                   "req_resp")
      ELSE IF r.parseable
        THEN Finish([g EXCEPT !.bodyReads = @ + 1], Returned(0, r.body))
      ELSE Throw([g EXCEPT !.bodyReads = @ + 1], RuntimeError(MsgJsonSyntax),
                 "req_resp")

\* ApiResponse without `this.accessToken = null` before the retry.
ApiResponse_KeepsToken(p) ==
  /\ proc[p].pc = "req_resp"
  /\ \/ \E r \in Responses :
          proc' = [proc EXCEPT ![p] = HandleResponse(@, r)]
     \/ proc' = [proc EXCEPT ![p] =
          Throw(@, RuntimeError(MsgFetchFailed), "req_resp")]
  /\ UNCHANGED <<storeVars, accessToken, errVars, restVars>>

\* lines 196-213: fetch settles, with a response or with a rejection.
ApiResponse(p) ==
  /\ proc[p].pc = "req_resp"
  /\ \/ \E r \in Responses :
          /\ proc' = [proc EXCEPT ![p] = HandleResponse(@, r)]
          /\ accessToken' = IF Retryable(proc[p], r) THEN 0 ELSE accessToken
     \/ /\ proc' = [proc EXCEPT ![p] =
             Throw(@, RuntimeError(MsgFetchFailed), "req_resp")]
        /\ accessToken' = accessToken
  /\ UNCHANGED <<storeVars, errVars, restVars>>

\* The recursive call without `retry: false`.
RetryRequest_KeepsRetry(p) ==
  /\ proc[p].pc = "req_retry"
  /\ proc' = [proc EXCEPT ![p] = CallGetAccessToken(@)]
  /\ UNCHANGED <<storeVars, accessToken, errVars, restVars>>

\* line 201: the re-authentication has resolved; request calls itself with
\* retry: false.
RetryRequest(p) ==
  /\ proc[p].pc = "req_retry"
  /\ proc' = [proc EXCEPT ![p] = CallGetAccessToken([@ EXCEPT !.retry = FALSE])]
  /\ UNCHANGED <<storeVars, accessToken, errVars, restVars>>

(***************************************************************************)
(* The error normalizer applied to a thrown value                          *)
(***************************************************************************)

\* withErrorHandling's catch: handleHelpScoutError(error) writes its payload
\* and ends the process.
HandleError ==
  /\ ~exited
  /\ emitted' = emitted \o handleHelpScoutError(thrown)
  /\ exited' = TRUE
  /\ UNCHANGED <<clientVars, thrown, restVars>>

(***************************************************************************)
(* The sanitizers applied to a message and to an API error body            *)
(***************************************************************************)

\* No message handed over.
NoSample == [message |-> <<>>, secrets |-> {}]

\* sanitizeErrorMessage(message) is called and returns.
Sanitize ==
  /\ msgResult = <<>>
  /\ msgResult' = <<sanitizeErrorMessage(sample.message)>>
  /\ UNCHANGED <<clientVars, errVars, sample, apiResult, command, walkVars,
                 summaryVars, surfaceVars>>

\* sanitizeApiError(error) is called and returns.
SanitizeApi ==
  /\ apiResult = <<>>
  /\ apiResult' = <<sanitizeApiError(thrown)>>
  /\ UNCHANGED <<clientVars, errVars, sample, msgResult, command, walkVars,
                 summaryVars, surfaceVars>>

(***************************************************************************)
(* Command handlers (lib/command-utils.ts, commands/*.ts)                  *)
(***************************************************************************)

\* No command is running.
NoCommand ==
  [pc |-> "none", name |-> "none", hasFields |-> FALSE, observed |-> "none"]

\* conversations update, called with no option (conversations.ts)
MsgUpdateOptionRequired ==
  <<"A", "t", " ", "l", "e", "a", "s", "t", " ", "o", "n", "e", " ", "u",
    "p", "d", "a", "t", "e", " ", "o", "p", "t", "i", "o", "n", " ", "i",
    "s", " ", "r", "e", "q", "u", "i", "r", "e", "d">>

\* saved-replies update, called with neither --name nor --text
MsgNameOrTextRequired ==
  <<"A", "t", " ", "l", "e", "a", "s", "t", " ", "o", "n", "e", " ", "o",
    "f", " ", "-", "-", "n", "a", "m", "e", " ", "o", "r", " ", "-", "-",
    "t", "e", "x", "t", " ", "i", "s", " ", "r", "e", "q", "u", "i", "r",
    "e", "d">>

MsgConversationUpdated ==
  <<"C", "o", "n", "v", "e", "r", "s", "a", "t", "i", "o", "n", " ", "u",
    "p", "d", "a", "t", "e", "d">>

MsgSavedReplyUpdated ==
  <<"S", "a", "v", "e", "d", " ", "r", "e", "p", "l", "y", " ", "u", "p",
    "d", "a", "t", "e", "d">>

\* The commands modelled: the two update commands, each with or without a
\* field to update. observed is what the handler got back from the client:
\* "value", "exception", or "none" while it got nothing.
Commands ==
  {[pc |-> "start", name |-> n, hasFields |-> h, observed |-> "none"] :
     n \in {"conversations update", "saved-replies update"},
     h \in BOOLEAN}

\* The status the process ends with: the argument of process.exit if it was
\* called, else 0.
ExitStatus == IF exited THEN emitted[Len(emitted)].exitCode ELSE 0

\* handleHelpScoutError(error) in a catch block: the payload is written and
\* the process ends.
Normalize(error) ==
  /\ thrown' = error
  /\ emitted' = emitted \o handleHelpScoutError(error)
  /\ exited' = TRUE

\* The action callback that withErrorHandling(fn) returns is invoked and
\* runs fn up to its first await. `conversations update` throws an Error
\* when no option was given, which the catch of withErrorHandling hands to
\* handleHelpScoutError; `saved-replies update` writes {error: '...'} and
\* returns; with a field to update both call their method of the client,
\* which calls request.
RunCommand(p) ==
  /\ command.pc = "start"
  /\ ~exited
  /\ proc[p].pc = "idle"
  /\ IF command.hasFields
       THEN /\ proc' = [proc EXCEPT ![p] = CallGetAccessToken(Begin("request"))]
            /\ command' = [command EXCEPT !.pc = "await"]
            /\ UNCHANGED errVars
       ELSE IF command.name = "conversations update"
         THEN /\ Normalize(RuntimeError(MsgUpdateOptionRequired))
              /\ command' = [command EXCEPT !.pc = "exited"]
              /\ proc' = proc
         ELSE /\ emitted' = Append(emitted, [error |-> MsgNameOrTextRequired])
              /\ command' = [command EXCEPT !.pc = "done"]
              /\ UNCHANGED <<proc, thrown, exited>>
  /\ UNCHANGED <<storeVars, accessToken, sanitizerVars, walkVars,
                 summaryVars, surfaceVars>>

\* The catch of HelpScoutClient.withErrorHandling that lets the exception
\* out: the handler's own catch gets it.
ResourceCatch_Rethrows(p) ==
  /\ command.pc = "await"
  /\ proc[p].pc = "idle"
  /\ proc[p].result.kind = "throw"
  /\ Normalize(proc[p].result.value)
  /\ command' = [command EXCEPT !.pc = "exited", !.observed = "exception"]
  /\ UNCHANGED <<clientVars, sanitizerVars, walkVars, summaryVars,
                 surfaceVars>>

\* HelpScoutClient.withErrorHandling, lines 216-222: request has thrown
\* inside a method of the client; its catch calls handleHelpScoutError,
\* which ends the process before the method settles.
ResourceCatch(p) ==
  /\ command.pc = "await"
  /\ proc[p].pc = "idle"
  /\ proc[p].result.kind = "throw"
  /\ Normalize(proc[p].result.value)
  /\ command' = [command EXCEPT !.pc = "exited"]
  /\ UNCHANGED <<clientVars, sanitizerVars, walkVars, summaryVars,
                 surfaceVars>>

\* request has returned: the method resolves with a plain value and the
\* handler writes its success payload and returns.
ResourceReturn(p) ==
  /\ command.pc = "await"
  /\ proc[p].pc = "idle"
  /\ proc[p].result.kind = "return"
  /\ emitted' = Append(emitted,
                  IF command.name = "conversations update"
                    THEN [message |-> MsgConversationUpdated]
                    ELSE [success |-> TRUE,
                          message |-> MsgSavedReplyUpdated])
  /\ command' = [command EXCEPT !.pc = "done", !.observed = "value"]
  /\ UNCHANGED <<clientVars, thrown, exited, sanitizerVars, walkVars,
                 summaryVars, surfaceVars>>

(***************************************************************************)
(* The pagination walker                                                   *)
(***************************************************************************)

\* Largest number of pages a listing has.
MaxPages == 3

\* The page sizes of the listings: an empty page, a short last page, a full
\* page.
PageSizes == {0, 7, 50}

\* A listing on the remote side: the sizes of its pages, and the totalPages
\* its page object reports (0 when it reports 0 or has no such field).
Listings ==
  {[sizes |-> sz, totalPages |-> t] :
     sz \in UNION {[1..n -> PageSizes] : n \in 0..MaxPages},
     t \in 0..MaxPages} \ {l \in
       [sizes : UNION {[1..n -> PageSizes] : n \in 0..MaxPages},
        totalPages : 0..MaxPages] : l.totalPages \notin {0, Len(l.sizes)}}

NoListing == [sizes |-> <<>>, totalPages |-> 0]

\* The conversations of page k of listing l, each named by its page and its
\* place on it.
PageItems(l, k) ==
  IF k \in 1..Len(l.sizes)
    THEN [i \in 1..l.sizes[k] |-> [page |-> k, index |-> i]]
    ELSE <<>>

\* The body of GET /conversations?page=k: {_embedded: {conversations},
\* page: {number, totalPages}}.
PageResponse(l, k) ==
  [conversations |-> PageItems(l, k),
   page |-> [number |-> k, totalPages |-> l.totalPages]]

\* listConversations with the items read from the wrong place: always [].
listConversations_NoItems(response) ==
  [conversations |-> <<>>, page |-> response.page]

\* listConversations with the page object lost.
listConversations_NoPage(response) ==
  [conversations |-> response.conversations,
   page |-> [number |-> 0, totalPages |-> 0]]

\* api-client.ts lines 236-246: the envelope reshaped into
\* {conversations, page}.
listConversations(response) ==
  [conversations |-> response.conversations, page |-> response.page]

\* No walk is running.
NoWalk ==
  [pc |-> "none", page |-> 0, items |-> <<>>, calls |-> <<>>, consumed |-> 0]

\* listAllConversations is called: the cursor is on page 1, nothing fetched.
StartWalk == [NoWalk EXCEPT !.pc = "request", !.page = 1]

\* The walker calls the listing method for the page under its cursor.
WalkRequest ==
  /\ walk.pc = "request"
  /\ walk' = [walk EXCEPT !.pc = "await", !.calls = Append(@, walk.page)]
  /\ UNCHANGED <<clientVars, errVars, sanitizerVars, command, listing,
                 summaryVars, surfaceVars>>

\* The page arrives: its items are appended; the walk is over when the
\* page reports no totalPages or its number has reached totalPages, else the
\* cursor moves on by one.
WalkResponse ==
  /\ walk.pc = "await"
  /\ LET result == listConversations(PageResponse(listing, walk.page))
         last == \/ result.page.totalPages = 0
                 \/ result.page.number >= result.page.totalPages
     IN  walk' = [walk EXCEPT
                    !.items = @ \o result.conversations,
                    !.consumed = @ + 1,
                    !.pc = IF last THEN "done" ELSE "request",
                    !.page = IF last THEN @ ELSE @ + 1]
  /\ UNCHANGED <<clientVars, errVars, sanitizerVars, command, listing,
                 summaryVars, surfaceVars>>

\* The page does not arrive: request throws inside listConversations, whose
\* catch ends the process.
WalkFailure ==
  /\ walk.pc = "await"
  /\ Normalize(RuntimeError(MsgFetchFailed))
  /\ walk' = [walk EXCEPT !.pc = "exited"]
  /\ UNCHANGED <<clientVars, sanitizerVars, command, listing, summaryVars,
                 surfaceVars>>

(***************************************************************************)
(* The conversation summarizer (commands/conversations.ts)                 *)
(*                                                                         *)
(* An optional value (a field that may be undefined) is a sequence of      *)
(* length 0 or 1; a person is a record whose `present` says whether the    *)
(* field holds an object at all.                                           *)
(***************************************************************************)

\* Largest number of threads embedded in a conversation.
MaxThreads == 3

NoPerson == [present |-> FALSE, first |-> <<>>, last |-> <<>>, email |-> ""]

Person(first, last, email) ==
  [present |-> TRUE, first |-> first, last |-> last, email |-> email]

\* The people of the threads.
Ann == Person(<<"A", "n", "n">>, <<"L", "e", "e">>, "ann@example.com")
Bob == Person(<<"B", "o", "b">>, <<>>, "bob@example.com")
Cy == Person(<<"C", "y">>, <<"R", "o", "y">>, "cy@example.com")
Dee == Person(<<"D", "e", "e">>, <<"K", "i", "m">>, "dee@example.com")
Eve == Person(<<"E", "v", "e">>, <<"O", "h">>, "eve@example.com")
Fay == Person(<<"F", "a", "y">>, <<"N", "g">>, "fay@example.com")

\* The bodies of the threads.
BodyHello ==
  <<"H", "e", "l", "l", "o">>

BodyFollowUp ==
  <<"<", "p", ">", "F", "o", "l", "l", "o", "w", "-", "u", "p", "<", "/",
    "p", ">">>

BodyThanks ==
  <<"T", "h", "a", "n", "k", "s", "!">>

BodyInternal ==
  <<"<", "b", ">", "I", "n", "t", "e", "r", "n", "a", "l", "<", "/", "b",
    ">", " ", "n", "o", "t", "e">>

\* What a thread holds besides its time: a customer thread with no body, one
\* with a body and both people, one with a body and no `customer`; a staff
\* reply with a body and one without; a note.
Contents ==
  {[type |-> "customer", body |-> <<>>, customer |-> Cy, createdBy |-> Cy],
   [type |-> "customer", body |-> BodyHello, customer |-> Ann,
    createdBy |-> Bob],
   [type |-> "customer", body |-> BodyFollowUp, customer |-> NoPerson,
    createdBy |-> Bob],
   [type |-> "message", body |-> BodyThanks, customer |-> Ann,
    createdBy |-> Dee],
   [type |-> "message", body |-> <<>>, customer |-> Ann, createdBy |-> Eve],
   [type |-> "note", body |-> BodyInternal, customer |-> Fay,
    createdBy |-> Fay]}

\* createdAt, as the time it parses to.
Times == {1, 2, 3}

Threads ==
  {[type |-> c.type, createdAt |-> t, body |-> c.body,
    customer |-> c.customer, createdBy |-> c.createdBy] :
     c \in Contents, t \in Times}

\* The values of `_embedded.threads`; <<>> also stands for its absence.
ThreadLists == UNION {[1..n -> Threads] : n \in 0..MaxThreads}

\* lib/output.ts, buildName: the parts that are there, a space between them.
buildName(first, last) ==
  IF first = <<>> /\ last = <<>> THEN <<>>
  ELSE IF first = <<>> THEN <<last>>
  ELSE IF last = <<>> THEN <<first>>
  ELSE <<first \o <<" ">> \o last>>

\* lib/output.ts, htmlToPlainText: the text without its tags. A tag runs
\* from a '<' that some '>' follows to the first '>' after it.
TagOpen(html, i) ==
  Least({j \in i..Len(html) :
           html[j] = "<" /\ \E k \in (j + 1)..Len(html) : html[k] = ">"}, 0)

TagClose(html, open) ==
  Least({k \in (open + 1)..Len(html) : html[k] = ">"}, 0)

RECURSIVE textFrom(_, _)
TextUpTo(html, i, open) ==
  IF open = 0 THEN SubSeq(html, i, Len(html))
  ELSE SubSeq(html, i, open - 1) \o textFrom(html, TagClose(html, open) + 1)

textFrom(html, i) == TextUpTo(html, i, TagOpen(html, i))

htmlToPlainText(html) == textFrom(html, 1)

\* line 32
MAX_MESSAGE_LENGTH == 300

\* String.prototype.trim
trim(text) ==
  LET ink == {i \in 1..Len(text) : text[i] \notin SpaceChars}
  IN  IF ink = {} THEN <<>>
      ELSE SubSeq(text, CHOOSE i \in ink : \A j \in ink : i <= j,
                        CHOOSE i \in ink : \A j \in ink : i >= j)

\* A text of one character more than the limit left as it is.
truncate_OneMore(text) ==
  IF Len(text) <= MAX_MESSAGE_LENGTH + 1 THEN text
  ELSE trim(SubSeq(text, 1, MAX_MESSAGE_LENGTH)) \o Ellipsis

\* lines 34-37
truncate(text) ==
  IF Len(text) <= MAX_MESSAGE_LENGTH THEN text
  ELSE trim(SubSeq(text, 1, MAX_MESSAGE_LENGTH)) \o Ellipsis

\* lines 39-42; info is an optional person
buildPersonName(info) ==
  IF ~info.present THEN <<>> ELSE buildName(info.first, info.last)

\* Array.prototype.sort with the comparator of lines 55-57: a stable sort by
\* createdAt. Each thread goes behind those already placed that are not
\* later than it.
RECURSIVE sortByCreatedAt(_)
sortByCreatedAt(list) ==
  IF list = <<>> THEN <<>>
  ELSE LET t == list[Len(list)]
           placed == sortByCreatedAt(SubSeq(list, 1, Len(list) - 1))
           before == SelectSeq(placed, LAMBDA u : u.createdAt <= t.createdAt)
           after == SelectSeq(placed, LAMBDA u : u.createdAt > t.createdAt)
       IN  before \o <<t>> \o after

\* The threads left in the order they came in.
sortedThreads_Unsorted(list) == list

\* lines 55-57
sortedThreads(list) == sortByCreatedAt(list)

\* line 59
customerThreads(sorted) ==
  SelectSeq(sorted, LAMBDA t : t.type = "customer")

\* Every thread that is not the customer's taken for a staff reply.
userThreads_NotCustomer(sorted) ==
  SelectSeq(sorted, LAMBDA t : t.type # "customer")

\* line 60
userThreads(sorted) ==
  SelectSeq(sorted, LAMBDA t : t.type = "message")

\* Array.prototype.find((t) => t.body): the first thread with a body, if any.
findWithBody(list) ==
  LET with == SelectSeq(list, LAMBDA t : t.body # <<>>)
  IN  IF with = <<>> THEN <<>> ELSE <<Head(with)>>

\* lines 74-76, 82-84: the optional firstMessage of an optional thread
firstMessage(found) ==
  IF found = <<>> THEN <<>>
  ELSE <<truncate(htmlToPlainText(found[1].body))>>

\* An optional email: undefined for no person.
emailOf(info) == IF info.present THEN <<info.email>> ELSE <<>>

\* A participant with one message and nothing else.
NoThreadInfo_OneMessage ==
  [customer |-> [name |-> <<>>, email |-> <<>>, messageCount |-> 1,
                 firstMessage |-> <<>>],
   user |-> [name |-> <<>>, email |-> <<>>, messageCount |-> 1,
             firstMessage |-> <<>>]]

\* lines 46-52: what is returned for no threads
NoThreadInfo ==
  [customer |-> [name |-> <<>>, email |-> <<>>, messageCount |-> 0,
                 firstMessage |-> <<>>],
   user |-> [name |-> <<>>, email |-> <<>>, messageCount |-> 0,
             firstMessage |-> <<>>]]

\* The author of the first staff reply.
mostRecentUserSource_First(users) ==
  IF users = <<>> THEN NoPerson ELSE users[1].createdBy

\* lines 63, 65: mostRecentUserThread?.createdBy
mostRecentUserSource(users) ==
  IF users = <<>> THEN NoPerson ELSE users[Len(users)].createdBy

\* lines 44-87
extractThreadInfo(list) ==
  IF Len(list) = 0
    THEN NoThreadInfo
    ELSE
      LET sorted == sortedThreads(list)
          customers == customerThreads(sorted)
          users == userThreads(sorted)
          firstCustomerWithBody == findWithBody(customers)
          firstUserWithBody == findWithBody(users)
          customerSource ==
            IF firstCustomerWithBody = <<>> THEN NoPerson
            ELSE IF firstCustomerWithBody[1].customer.present
              THEN firstCustomerWithBody[1].customer
            ELSE firstCustomerWithBody[1].createdBy
          userSource == mostRecentUserSource(users)
      IN  [customer |->
             [name |-> buildPersonName(customerSource),
              email |-> emailOf(customerSource),
              messageCount |-> Len(customers),
              firstMessage |-> firstMessage(firstCustomerWithBody)],
           user |->
             [name |-> buildPersonName(userSource),
              email |-> emailOf(userSource),
              messageCount |-> Len(users),
              firstMessage |-> firstMessage(firstUserWithBody)]]

\* Bodies about as long as the cut: some blanks, a run of letters, some
\* blanks, a run of letters.
Run(n, char) == [i \in 1..n |-> char]

CutBody(lead, run, gap, rest) ==
  Run(lead, " ") \o Run(run, "x") \o Run(gap, " ") \o Run(rest, "x")

ParagraphOpen ==
  <<"<", "p", ">">>

ParagraphClose ==
  <<"<", "/", "p", ">">>

CutBodies ==
  {CutBody(lead, run, gap, rest) :
     lead \in {0, 2}, gap \in {0, 2}, rest \in {0, 5},
     run \in (MAX_MESSAGE_LENGTH - 5)..(MAX_MESSAGE_LENGTH + 3)}

\* A conversation of one thread with such a body, plain or in a paragraph.
CutThreadLists ==
  {<<[type |-> type, createdAt |-> 1, body |-> body, customer |-> Ann,
      createdBy |-> Dee]>> :
     type \in {"customer", "message"},
     body \in CutBodies \cup {ParagraphOpen \o b \o ParagraphClose :
                                b \in CutBodies}}

\* summarizeConversations line 106: extractThreadInfo is called on the
\* threads of a conversation and returns.
Summarize ==
  /\ threadInfo = <<>>
  /\ threadInfo' = <<extractThreadInfo(threads)>>
  /\ UNCHANGED <<clientVars, errVars, sanitizerVars, command, walkVars,
                 threads, surfaceVars>>

(***************************************************************************)
(* The aggregate summaries (commands/conversations.ts 89-116 for the       *)
(* command line, mcp-server.ts 57-69 for the tool server)                  *)
(*                                                                         *)
(* byStatus and byTag are plain JavaScript objects: a function from the    *)
(* object's own keys to values. A value is a number, undefined, or what    *)
(* the object inherits from Object.prototype; a sum with a value that is   *)
(* not a number is a string.                                               *)
(***************************************************************************)

\* Largest number of conversations in a list, and of calls on it.
MaxConversations == 2
MaxCalls == 2

Number(n) == [kind |-> "number", n |-> n, text |-> <<>>]

Undefined == [kind |-> "undefined", n |-> 0, text |-> <<>>]

\* String(Object), the constructor every plain object inherits.
ObjectSource ==
  <<"f", "u", "n", "c", "t", "i", "o", "n", " ", "O", "b", "j", "e", "c",
    "t", "(", ")", " ", "{", " ", "[", "n", "a", "t", "i", "v", "e", " ",
    "c", "o", "d", "e", "]", " ", "}">>

\* Of the properties of Object.prototype, the one a tag of the model names.
PrototypeKeys == {"constructor"}

Inherited(key) == [kind |-> "function", n |-> 0, text |-> ObjectSource]

\* obj[key]
Get(obj, key) ==
  IF key \in DOMAIN obj THEN obj[key]
  ELSE IF key \in PrototypeKeys THEN Inherited(key)
  ELSE Undefined

\* (value || 0) + 1
PlusOne(value) ==
  IF value.kind = "undefined" \/ (value.kind = "number" /\ value.n = 0)
    THEN Number(1)
  ELSE IF value.kind = "number" THEN Number(value.n + 1)
  ELSE [kind |-> "string", n |-> 0, text |-> value.text \o <<"1">>]

\* obj[key] = (obj[key] || 0) + 1
Increment(obj, key) ==
  [k \in DOMAIN obj \cup {key} |->
     IF k = key THEN PlusOne(Get(obj, key)) ELSE obj[k]]

\* The object {} that byStatus and byTag start as.
NoCounts == [k \in {} |-> Undefined]

\* lines 96-98: for (const tag of conv.tags || [])
RECURSIVE countTags(_, _)
countTags(byTag, tags) ==
  IF tags = <<>> THEN byTag
  ELSE countTags(Increment(byTag, Head(tags).name), Tail(tags))

\* lines 93-99: for (const conv of conversations)
RECURSIVE countConversations(_, _)
countConversations(counts, list) ==
  IF list = <<>> THEN counts
  ELSE countConversations(
         [byStatus |-> Increment(counts.byStatus, Head(list).status),
          byTag |-> countTags(counts.byTag, Head(list).tags)],
         Tail(list))

counted(list) ==
  countConversations([byStatus |-> NoCounts, byTag |-> NoCounts], list)

\* lines 105-114: the entry of one conversation
conversationEntry(c) ==
  [id |-> c.id, status |-> c.status,
   tags |-> [i \in DOMAIN c.tags |-> c.tags[i].name],
   customer |-> extractThreadInfo(c.threads).customer,
   user |-> extractThreadInfo(c.threads).user]

\* commands/conversations.ts 89-116. The optional `conversations` is there.
summarizeConversations(list) ==
  [total |-> Len(list), byStatus |-> counted(list).byStatus,
   byTag |-> counted(list).byTag,
   conversations |-> <<[i \in DOMAIN list |-> conversationEntry(list[i])]>>]

\* mcp-server.ts 57-69: the three aggregates only.
summarizeConversationsTool(list) ==
  [total |-> Len(list), byStatus |-> counted(list).byStatus,
   byTag |-> counted(list).byTag, conversations |-> <<>>]

\* The threads sorted where they are.
threadsAfter_SortedInPlace(list) == sortByCreatedAt(list)

\* line 55: [...threads] is sorted, a copy; the list itself stays as it is.
threadsAfter(list) == list

\* The conversations as a call of either summarizer leaves them.
conversationsAfter(list) ==
  [i \in DOMAIN list |->
     [list[i] EXCEPT !.threads = threadsAfter(list[i].threads)]]

Tag(name) == [name |-> name]

\* The tags of a conversation; <<>> also stands for an absent `tags`.
TagLists ==
  {<<>>, <<Tag("billing")>>, <<Tag("constructor")>>,
   <<Tag("billing"), Tag("vip")>>, <<Tag("vip"), Tag("vip")>>}

ConversationStatuses == {"active", "closed"}

\* The embedded threads of a conversation: none, or a follow-up listed
\* before the earlier message it follows.
EmbeddedThreads ==
  {<<>>,
   <<[type |-> "customer", createdAt |-> 3, body |-> BodyFollowUp,
      customer |-> NoPerson, createdBy |-> Bob],
     [type |-> "customer", createdAt |-> 1, body |-> BodyHello,
      customer |-> Ann, createdBy |-> Bob]>>}

ConversationLists ==
  UNION {{[i \in 1..n |->
             [id |-> i, status |-> c[i][1], tags |-> c[i][2],
              threads |-> c[i][3]]] :
            c \in [1..n -> ConversationStatuses \X TagLists \X EmbeddedThreads]} :
         n \in 0..MaxConversations}

\* `conversations list --summary` (lines 172-183): the full summary.
SummarizeCli ==
  /\ Len(summaries) < MaxCalls
  /\ summaries' = Append(summaries,
                          [surface |-> "cli",
                           result |-> summarizeConversations(conversations)])
  /\ conversations' = conversationsAfter(conversations)
  /\ UNCHANGED <<clientVars, errVars, sanitizerVars, command, walkVars,
                 summaryVars, remoteTags, tagOp, deletion,
                 remoteCustomers>>

\* get_conversations_summary (mcp-server.ts 139-153): the light summary.
SummarizeTool ==
  /\ Len(summaries) < MaxCalls
  /\ summaries' =
       Append(summaries,
              [surface |-> "tool",
               result |-> summarizeConversationsTool(conversations)])
  /\ conversations' = conversations
  /\ UNCHANGED <<clientVars, errVars, sanitizerVars, command, walkVars,
                 summaryVars, remoteTags, tagOp, deletion,
                 remoteCustomers>>

(***************************************************************************)
(* Tags of a conversation (lib/api-client.ts 287-306)                      *)
(***************************************************************************)

NoTagOp == [op |-> "none", tag |-> "", before |-> <<>>, ok |-> FALSE]

TagNames == {"urgent", "billing", "vip"}

\* The tag lists a conversation may have: no name twice.
RemoteTagLists ==
  {list \in UNION {[1..n -> TagNames] : n \in 0..Cardinality(TagNames)} :
     \A i, j \in DOMAIN list : list[i] = list[j] => i = j}

\* PUT /conversations/{id}/tags as removeConversationTag relies on it
\* (lines 300-303): the list sent becomes the tag list of the conversation.
putTags(sent) == sent

\* lines 289-291: the body of the request of addConversationTag
addBody(existing, tag) == <<tag>>

\* lines 298-303: the body of the request of removeConversationTag, from the
\* tags that getConversation returned
removeBody(existing, tag) == SelectSeq(existing, LAMBDA t : t # tag)

\* addConversationTag (lines 287-294): `conversations add-tag`, add_tag.
\* A request that fails leaves the conversation as it is.
AddConversationTag ==
  \E tag \in TagNames, ok \in BOOLEAN :
    /\ tagOp' = [op |-> "add", tag |-> tag, before |-> remoteTags,
                  ok |-> ok]
    /\ remoteTags' =
         IF ok THEN putTags(addBody(remoteTags, tag)) ELSE remoteTags
    /\ UNCHANGED <<clientVars, errVars, sanitizerVars, command, walkVars,
                   summaryVars, conversations, summaries, deletion,
                   remoteCustomers>>

\* removeConversationTag (lines 296-306): `conversations remove-tag`.
RemoveConversationTag ==
  \E tag \in TagNames, ok \in BOOLEAN :
    /\ tagOp' = [op |-> "remove", tag |-> tag, before |-> remoteTags,
                  ok |-> ok]
    /\ remoteTags' =
         IF ok THEN putTags(removeBody(remoteTags, tag)) ELSE remoteTags
    /\ UNCHANGED <<clientVars, errVars, sanitizerVars, command, walkVars,
                   summaryVars, conversations, summaries, deletion,
                   remoteCustomers>>

(***************************************************************************)
(* customers delete (commands/customers.ts, lib/command-utils.ts)          *)
(***************************************************************************)

NoDeletion ==
  [pc |-> "none", yes |-> FALSE, answer |-> <<>>, id |-> 0, calls |-> <<>>,
   before |-> {}]

CustomerIds == {1, 2}

\* What the operator may type at the prompt.
Answers ==
  {<<>>, <<"y">>, <<"Y">>, <<"n">>, <<"N">>, <<"y", "e", "s">>,
   <<"Y", "e", "s">>, <<" ", "y">>, <<"y", "y">>}

\* `customers delete <id>` with or without --yes, on an account that holds
\* some customers.
Deletions ==
  {[pc |-> "start", yes |-> y, answer |-> <<>>, id |-> i, calls |-> <<>>,
    before |-> held] :
     y \in BOOLEAN, i \in CustomerIds, held \in SUBSET CustomerIds}

MsgCustomerDeleted ==
  <<"C", "u", "s", "t", "o", "m", "e", "r", " ", "d", "e", "l", "e", "t",
    "e", "d">>

\* String.prototype.toLowerCase
toLowerCase(text) == [i \in DOMAIN text |-> ToLower(text[i])]

\* Every answer but a 'n' taken for a yes.
confirmed_UnlessNo(answer) == toLowerCase(answer) # <<"n">>

\* command-utils.ts line 32: answer.toLowerCase() === 'y'
confirmed(answer) == toLowerCase(answer) = <<"y">>

\* The handler calls confirmDelete('customer', options.yes) (customers.ts
\* line 108): with --yes it returns true (command-utils.ts 19-21), else it
\* asks the question on stderr and waits for a line.
RunDelete ==
  /\ deletion.pc = "start"
  /\ deletion' = [deletion EXCEPT
                    !.pc = IF deletion.yes THEN "confirmed" ELSE "prompt"]
  /\ UNCHANGED <<clientVars, errVars, sanitizerVars, command, walkVars,
                 summaryVars, conversations, summaries, remoteTags, tagOp,
                 remoteCustomers>>

\* The operator answers (command-utils.ts 29-34); on anything but a yes the
\* handler returns without output (customers.ts 108-110).
AnswerPrompt ==
  \E answer \in Answers :
    /\ deletion.pc = "prompt"
    /\ deletion' = [deletion EXCEPT
                      !.answer = answer,
                      !.pc = IF confirmed(answer) THEN "confirmed"
                             ELSE "done"]
    /\ UNCHANGED <<clientVars, errVars, sanitizerVars, command, walkVars,
                   summaryVars, conversations, summaries, remoteTags, tagOp,
                   remoteCustomers>>

\* client.deleteCustomer(id) sends DELETE /customers/{id} (customers.ts 111,
\* api-client.ts 395-400).
DeleteRequest ==
  /\ deletion.pc = "confirmed"
  /\ deletion' = [deletion EXCEPT !.pc = "await",
                                   !.calls = Append(@, deletion.id)]
  /\ UNCHANGED <<clientVars, errVars, sanitizerVars, command, walkVars,
                 summaryVars, conversations, summaries, remoteTags, tagOp,
                 remoteCustomers>>

\* The customer is deleted and the handler writes its message (line 112).
DeleteSuccess ==
  /\ deletion.pc = "await"
  /\ deletion.id \in remoteCustomers
  /\ remoteCustomers' = remoteCustomers \ {deletion.id}
  /\ emitted' = Append(emitted, [message |-> MsgCustomerDeleted])
  /\ deletion' = [deletion EXCEPT !.pc = "done"]
  /\ UNCHANGED <<clientVars, thrown, exited, sanitizerVars, command,
                 walkVars, summaryVars, conversations, summaries, remoteTags,
                 tagOp>>

\* The request fails: the catch of the client's withErrorHandling hands the
\* error to handleHelpScoutError.
DeleteFailure ==
  /\ deletion.pc = "await"
  /\ Normalize(RuntimeError(MsgFetchFailed))
  /\ deletion' = [deletion EXCEPT !.pc = "exited"]
  /\ UNCHANGED <<clientVars, sanitizerVars, command, walkVars, summaryVars,
                 conversations, summaries, remoteTags, tagOp,
                 remoteCustomers>>


(***************************************************************************)
(* Specifications                                                          *)
(***************************************************************************)

InitStore ==
  /\ appId \in BOOLEAN
  /\ appSecret \in BOOLEAN
  /\ storedAccessToken \in Tokens
  /\ storedRefreshToken \in Tokens

\* A new process: new HelpScoutClient() over whatever the store holds; the
\* commands of one invocation call the client one at a time.
\* The parts of the program a specification leaves at rest.
IdleClient ==
  /\ appId = TRUE
  /\ appSecret = TRUE
  /\ storedAccessToken = 0
  /\ storedRefreshToken = 0
  /\ accessToken = 0
  /\ proc = [p \in Callers |-> IdleFrame]

IdleNormalizer == thrown = NonObject /\ emitted = <<>> /\ exited = FALSE

IdleSanitizer == sample = NoSample /\ msgResult = <<>> /\ apiResult = <<>>

IdleCommand == command = NoCommand

IdleWalk == walk = NoWalk /\ listing = NoListing

IdleSummarizer == threads = <<>> /\ threadInfo = <<>>

IdleAggregator == conversations = <<>> /\ summaries = <<>>

IdleTags == remoteTags = <<>> /\ tagOp = NoTagOp

IdleDeletion == deletion = NoDeletion /\ remoteCustomers = {}

\* Nothing of the command surfaces is in use.
IdleSurfaces == IdleAggregator /\ IdleTags /\ IdleDeletion

Init ==
  /\ IdleSurfaces
  /\ InitStore
  /\ accessToken = 0
  /\ proc = [p \in Callers |-> IdleFrame]
  /\ IdleNormalizer
  /\ IdleSanitizer
  /\ IdleCommand
  /\ IdleWalk
  /\ IdleSummarizer

Next ==
  \E p \in Command :
    \/ clearToken(p)
    \/ getAccessToken(p)
    \/ GetStoredToken(p)
    \/ UseStoredToken(p)
    \/ refreshAccessToken(p)
    \/ ReadCredentials(p)
    \/ RefreshResponse(p)
    \/ SetRefreshToken(p)
    \/ RefreshDone(p)
    \/ ClientCredentialsResponse(p)
    \/ ClientCredentialsDone(p)
    \/ request(p)
    \/ ApiResponse(p)
    \/ RetryRequest(p)

Spec == Init /\ [][Next]_vars

\* Values a command may throw at the normalizer.
ErrorNames ==
  {"", "bad_request", "unauthorized", "forbidden", "not_found", "conflict",
   "too_many_requests", "internal_server_error", "service_unavailable",
   "invalid_grant"}

\* n times the letter x: 'x'.repeat(n)
Pad(n) == [i \in 1..n |-> "x"]

\* The repeat count of the long message of errors.test.ts.
LongPad == 600

\* 'Error: ' + 'x'.repeat(600)
MsgLong == PrefixError \o Pad(LongPad)

Messages == {<<>>, MsgPlain, MsgSecret, MsgLong}

Descriptions == {<<>>, MsgInvalidClient}

Embeddeds ==
  {<<>>,
   <<[message |-> MsgRequired, path |-> <<>>],
     [message |-> <<>>, path |-> PathBody]>>,
   <<[message |-> <<>>, path |-> <<>>],
     [message |-> MsgRequired, path |-> PathSubject],
     [message |-> <<>>, path |-> <<>>],
     [message |-> MsgBodyRequired, path |-> PathBody]>>,
   <<[message |-> <<>>, path |-> <<>>]>>}

StatusCodes == {0, 401, 422}

ThrownValues ==
  {NonObject} \cup
  {Value(TRUE, c, e, d, m, em, sc) :
     c \in BOOLEAN, e \in ErrorNames, d \in Descriptions, m \in Messages,
     em \in Embeddeds, sc \in StatusCodes}

\* A command has thrown some value; its handler has not run yet.
InitErr ==
  /\ IdleSurfaces
  /\ IdleClient
  /\ thrown \in ThrownValues
  /\ emitted = <<>>
  /\ exited = FALSE
  /\ IdleSanitizer
  /\ IdleCommand
  /\ IdleWalk
  /\ IdleSummarizer

NextErr == HandleError

SpecErr == InitErr /\ [][NextErr]_vars

\* An API error body is about to be handed to sanitizeApiError.
InitApi ==
  /\ IdleSurfaces
  /\ IdleClient
  /\ thrown \in ThrownValues
  /\ emitted = <<>>
  /\ exited = FALSE
  /\ IdleSanitizer
  /\ IdleCommand
  /\ IdleWalk
  /\ IdleSummarizer

NextApi == SanitizeApi

SpecApi == InitApi /\ [][NextApi]_vars

\* One invocation of the command line: a new process runs one command.
InitCmd ==
  /\ IdleSurfaces
  /\ InitStore
  /\ accessToken = 0
  /\ proc = [p \in Callers |-> IdleFrame]
  /\ IdleNormalizer
  /\ IdleSanitizer
  /\ command \in Commands
  /\ IdleWalk
  /\ IdleSummarizer

NextCmd ==
  \E p \in Command :
    \/ RunCommand(p)
    \/ GetStoredToken(p)
    \/ UseStoredToken(p)
    \/ ReadCredentials(p)
    \/ RefreshResponse(p)
    \/ SetRefreshToken(p)
    \/ RefreshDone(p)
    \/ ClientCredentialsResponse(p)
    \/ ClientCredentialsDone(p)
    \/ ApiResponse(p)
    \/ RetryRequest(p)
    \/ ResourceCatch(p)
    \/ ResourceReturn(p)

SpecCmd == InitCmd /\ [][NextCmd]_vars

\* listAllConversations is called on some listing.
InitWalk ==
  /\ IdleSurfaces
  /\ IdleClient
  /\ IdleNormalizer
  /\ IdleSanitizer
  /\ IdleCommand
  /\ walk = StartWalk
  /\ listing \in Listings
  /\ IdleSummarizer

NextWalk == WalkRequest \/ WalkResponse \/ WalkFailure

\* Every call the walker makes is answered, and the walker goes on when it
\* is: the run loop never leaves a settled await waiting.
SpecWalk == InitWalk /\ [][NextWalk]_vars /\ WF_vars(NextWalk)

\* A conversation with some embedded threads is about to be summarized.
InitSum ==
  /\ IdleSurfaces
  /\ IdleClient
  /\ IdleNormalizer
  /\ IdleSanitizer
  /\ IdleCommand
  /\ IdleWalk
  /\ threads \in ThreadLists
  /\ threadInfo = <<>>

NextSum == Summarize

SpecSum == InitSum /\ [][NextSum]_vars

\* A conversation with some tags, and the tag commands run on it.
InitTag ==
  /\ IdleClient
  /\ IdleNormalizer
  /\ IdleSanitizer
  /\ IdleCommand
  /\ IdleWalk
  /\ IdleSummarizer
  /\ IdleAggregator
  /\ IdleDeletion
  /\ remoteTags \in RemoteTagLists
  /\ tagOp = NoTagOp

NextTag == AddConversationTag \/ RemoveConversationTag

SpecTag == InitTag /\ [][NextTag]_vars

\* The tool server: one client instance (line 482) shared by two tool calls
\* whose requests interleave at their awaits; the store holds an access
\* token, and a refresh token or none.
InitRace ==
  /\ IdleSurfaces
  /\ appId = TRUE
  /\ appSecret = TRUE
  /\ storedAccessToken = 1
  /\ storedRefreshToken \in {0, 1}
  /\ accessToken = 0
  /\ proc = [p \in Callers |-> IdleFrame]
  /\ IdleNormalizer
  /\ IdleSanitizer
  /\ IdleCommand
  /\ IdleWalk
  /\ IdleSummarizer

\* The answers of the API in a race: a 401 or a 200 with an empty object,
\* or no answer at all; the token endpoint issues a token or is unreachable.
RaceAnswers ==
  {NoResponse} \cup
    {[status |-> st, parseable |-> TRUE, body |-> EmptyObject] :
       st \in {200, 401}}

NextRace ==
  \E p \in Callers :
    \/ /\ proc[p].op = "none"
       /\ request(p)
    \/ GetStoredToken(p)
    \/ UseStoredToken(p)
    \/ ReadCredentials(p)
    \/ RefreshResponse(p)
    \/ SetRefreshToken(p)
    \/ RefreshDone(p)
    \/ /\ ClientCredentialsResponse(p)
       /\ proc'[p].result.kind = "throw" =>
            proc'[p].result.value = RuntimeError(MsgFetchFailed)
    \/ ClientCredentialsDone(p)
    \/ /\ ApiResponse(p)
       /\ proc'[p].response \in RaceAnswers
    \/ RetryRequest(p)

SpecRace == InitRace /\ [][NextRace]_vars

\* `customers delete` is invoked.
InitDel ==
  /\ IdleClient
  /\ IdleNormalizer
  /\ IdleSanitizer
  /\ IdleCommand
  /\ IdleWalk
  /\ IdleSummarizer
  /\ IdleAggregator
  /\ IdleTags
  /\ deletion \in Deletions
  /\ remoteCustomers = deletion.before

NextDel ==
  RunDelete \/ AnswerPrompt \/ DeleteRequest \/ DeleteSuccess
    \/ DeleteFailure

SpecDel == InitDel /\ [][NextDel]_vars

\* A conversation whose one thread has a body about as long as the cut.
InitCut ==
  /\ IdleSurfaces
  /\ IdleClient
  /\ IdleNormalizer
  /\ IdleSanitizer
  /\ IdleCommand
  /\ IdleWalk
  /\ threads \in CutThreadLists
  /\ threadInfo = <<>>

NextCut == Summarize

SpecCut == InitCut /\ [][NextCut]_vars

\* A list of conversations has been fetched and is about to be summarized.
InitAgg ==
  /\ IdleClient
  /\ IdleNormalizer
  /\ IdleSanitizer
  /\ IdleCommand
  /\ IdleWalk
  /\ IdleSummarizer
  /\ IdleTags
  /\ IdleDeletion
  /\ conversations \in ConversationLists
  /\ summaries = <<>>

NextAgg == SummarizeCli \/ SummarizeTool

SpecAgg == InitAgg /\ [][NextAgg]_vars

\* Messages in which a secret is written in one of the forms the patterns
\* are for: one secret between a head and a tail, or two secrets.
Secrets == {SecretA, SecretB}

Forms ==
  {FormBearer, FormBearerUpper, FormToken, FormTokenColon, FormClientSecret,
   FormClientDash, FormAuthorization, FormAuthorizationCaps}

Prefixes == {<<>>, PrefixFailed, PrefixInvalidBearer}

Suffixes == {<<>>, SuffixRejected}

SecretSamples ==
  {[message |-> p \o f \o v \o x, secrets |-> {v}] :
     p \in Prefixes, f \in Forms, v \in Secrets, x \in Suffixes}
  \cup
  {[message |-> f \o SecretA \o JoinWith \o g \o SecretB,
    secrets |-> {SecretA, SecretB}] : f \in Forms, g \in Forms}

\* A message that carries a secret is about to be sanitized.
InitMsg ==
  /\ IdleSurfaces
  /\ IdleClient
  /\ IdleNormalizer
  /\ sample \in SecretSamples
  /\ msgResult = <<>>
  /\ apiResult = <<>>
  /\ IdleCommand
  /\ IdleWalk
  /\ IdleSummarizer

NextMsg == Sanitize

SpecMsg == InitMsg /\ [][NextMsg]_vars

\* Messages of a length around the cap, with and without something to
\* redact behind the padding.
PadLengths == {0, LongPad} \cup ((MaxDetail - 25)..(MaxDetail + 5))

Tails ==
  {[message |-> <<>>, secrets |-> {}],
   [message |-> <<" ">> \o FormToken \o <<"a">>, secrets |-> {<<"a">>}],
   [message |-> <<" ">> \o FormBearer \o SecretA, secrets |-> {SecretA}]}

LengthSamples ==
  {[message |-> p \o Pad(n) \o t.message, secrets |-> t.secrets] :
     p \in {<<>>, PrefixError}, n \in PadLengths, t \in Tails}

InitLen ==
  /\ IdleSurfaces
  /\ IdleClient
  /\ IdleNormalizer
  /\ sample \in LengthSamples \cup {[message |-> MsgPlain, secrets |-> {}]}
  /\ msgResult = <<>>
  /\ apiResult = <<>>
  /\ IdleCommand
  /\ IdleWalk
  /\ IdleSummarizer

NextLen == Sanitize

SpecLen == InitLen /\ [][NextLen]_vars

(***************************************************************************)
(* Properties                                                              *)
(***************************************************************************)

\* Indices of the API calls, and of the token-endpoint calls, of a call log.
ApiCallsOf(f) == {i \in 1..Len(f.calls) : f.calls[i].kind = "api"}
TokenCallsOf(f) == {i \in 1..Len(f.calls) : f.calls[i].kind # "api"}

\* The caller is inside refreshAccessToken.
InRefresh(f) ==
  f.pc \in {"rat_read", "rat_refresh_resp", "rat_refresh_setRT",
            "rat_refresh_done", "rat_cc_resp", "rat_cc_done"}

LastStatus(f) == f.statuses[Len(f.statuses)]

\* C1: a request whose first answer is a retryable 401 clears the cached
\* token, re-authenticates and sends the call once more with the token the
\* re-authentication returned; a second 401 is thrown and nothing more is
\* sent: a request issues at most two API calls.
C1_RetryOnce ==
  \A p \in Callers :
    LET f == proc[p]
        n == Len(f.calls)
    IN  f.op = "request" =>
          /\ Cardinality(ApiCallsOf(f)) <= 2
          /\ (f.ratFrom = "retry" /\ InRefresh(f)) => accessToken = 0
          /\ Cardinality(ApiCallsOf(f)) = 2 =>
               /\ f.statuses # <<>> /\ f.statuses[1] = 401
               /\ ~f.retry
               /\ f.reauth # 0
               /\ f.calls[n] = ApiCall(f.reauth)
               /\ \E i \in TokenCallsOf(f) :
                    \E j \in ApiCallsOf(f) : j < i /\ i < n
          /\ (f.reauth # 0 /\ f.pc # "req_retry") =>
               Cardinality(ApiCallsOf(f)) = 2
          /\ (Len(f.statuses) = 2 /\ f.statuses[2] = 401) =>
               /\ f.pc = "idle"
               /\ f.result.kind = "throw"
               /\ f.result.value.statusCode = 401
               /\ Cardinality(ApiCallsOf(f)) = 2

\* A request answered 401 twice: it has thrown the second 401 after two calls.
C1_Witness ==
  /\ proc[1].op = "request" /\ proc[1].pc = "idle"
  /\ proc[1].statuses = <<401, 401>>
  /\ proc[1].result.kind = "throw"
  /\ \E i \in ApiCallsOf(proc[1]) : \E j \in ApiCallsOf(proc[1]) :
       proc[1].calls[i].token # proc[1].calls[j].token

\* C2: with a refresh token persisted and the app configured,
\* refreshAccessToken sends the refresh_token grant first; when that attempt
\* fails the client_credentials grant follows, and what the caller gets is
\* the client_credentials token or the client_credentials error, never the
\* refresh failure.
C2_RefreshFirst ==
  \A p \in Callers :
    LET f == proc[p]
    IN  /\ (f.configured /\ f.refreshToken # 0) =>
             \/ f.grants = <<"refresh_token">>
             \/ f.grants = <<"refresh_token", "client_credentials">>
        /\ f.refreshFailed =>
             /\ f.grants = <<"refresh_token", "client_credentials">>
             /\ f.result.at # "rat_refresh_resp"
        /\ (f.refreshFailed /\ f.pc = "idle" /\ f.op = "refreshAccessToken") =>
             \/ /\ f.result.kind = "return"
                /\ f.result.token = storedAccessToken
                /\ f.result.token # 0
             \/ /\ f.result.kind = "throw"
                /\ f.result.at = "rat_cc_resp"

\* The refresh grant failed, the client_credentials grant failed too, and the
\* caller holds the client_credentials error.
C2_Witness ==
  /\ proc[1].op = "refreshAccessToken" /\ proc[1].pc = "idle"
  /\ proc[1].refreshFailed
  /\ proc[1].grants = <<"refresh_token", "client_credentials">>
  /\ proc[1].result.kind = "throw"
  /\ proc[1].result.value.statusCode = 401

\* What C3 requires of a finished getAccessToken call in every case.
C3_Cached(f) ==
  f.result.kind = "return" =>
    /\ f.result.token # 0
    /\ accessToken = f.result.token

C3_OneOrTwo(f) ==
  /\ f.calls \in {<<TokenCall("client_credentials")>>,
                  <<TokenCall("refresh_token")>>,
                  <<TokenCall("refresh_token"),
                    TokenCall("client_credentials")>>}
  /\ f.entry.storedRefreshToken = 0 =>
       f.calls = <<TokenCall("client_credentials")>>

\* C3 as claimed: a getAccessToken call makes no token-endpoint call when a
\* cached or persisted access token exists, and otherwise exactly one or two
\* (one client_credentials exchange when no refresh token is persisted); a
\* successful call leaves the token cached.
C3_AsClaimed ==
  \A p \in Callers :
    LET f == proc[p]
    IN  (f.op = "getAccessToken" /\ f.pc = "idle") =>
          /\ IF f.entry.accessToken # 0 \/ f.entry.storedAccessToken # 0
               THEN f.calls = <<>>
               ELSE C3_OneOrTwo(f)
          /\ C3_Cached(f)

\* C3 amended: as claimed when appId and appSecret are configured; when one
\* of them is absent and no token exists, the call makes no token-endpoint
\* call and fails.
C3_TokenCalls ==
  \A p \in Callers :
    LET f == proc[p]
    IN  (f.op = "getAccessToken" /\ f.pc = "idle") =>
          /\ IF f.entry.accessToken # 0 \/ f.entry.storedAccessToken # 0
               THEN f.calls = <<>> /\ f.result.kind = "return"
               ELSE IF appId /\ appSecret
                 THEN C3_OneOrTwo(f)
                 ELSE f.calls = <<>> /\ f.result.kind = "throw"
          /\ C3_Cached(f)

\* No token anywhere: getAccessToken took two round trips and returned the
\* token it then holds in its cache.
C3_Witness ==
  /\ proc[1].op = "getAccessToken" /\ proc[1].pc = "idle"
  /\ proc[1].entry.accessToken = 0 /\ proc[1].entry.storedAccessToken = 0
  /\ Len(proc[1].calls) = 2
  /\ proc[1].result.kind = "return"
  /\ accessToken = proc[1].result.token

\* C4: with appId or appSecret absent, authentication fails with a
\* HelpScoutCliError of statusCode 401 before any grant is sent, and the
\* normalizer reports it as cli_error with statusCode 401.
C4_NotConfigured ==
  \A p \in Callers :
    LET f == proc[p]
    IN  (~appId \/ ~appSecret) =>
          /\ TokenCallsOf(f) = {}
          /\ (f.pc = "idle" /\ f.op = "refreshAccessToken") =>
               f.result.at = "rat_read"
          /\ f.result.at = "rat_read" =>
               /\ f.result.kind = "throw"
               /\ f.result.value.isCli
               /\ f.result.value.statusCode = 401
               /\ Len(handleHelpScoutError(f.result.value)) = 1
               /\ handleHelpScoutError(f.result.value)[1].name = "cli_error"
               /\ handleHelpScoutError(f.result.value)[1].statusCode = 401

\* A request with an app id but no app secret and no token: authentication
\* inside it has failed, and nothing was sent.
C4_Witness ==
  /\ appId /\ ~appSecret
  /\ proc[1].op = "request" /\ proc[1].pc = "idle"
  /\ proc[1].result.at = "rat_read"
  /\ proc[1].calls = <<>>

\* A step of caller p that invalidates the token: a clearToken call, or the
\* clearing of the 401 retry path.
Invalidates(p) ==
  \/ proc[p].pc = "idle" /\ proc'[p].pc = "idle" /\ proc'[p].op = "clearToken"
  \/ proc[p].pc = "req_resp" /\ proc'[p].pc = "rat_read"

\* C5: invalidating the token empties the in-memory token and leaves the
\* persisted access token, the persisted refresh token, appId and appSecret
\* as they were.
C5_InvalidateFrame ==
  [][\A p \in Callers :
       Invalidates(p) =>
         /\ accessToken' = 0
         /\ storedAccessToken' = storedAccessToken
         /\ storedRefreshToken' = storedRefreshToken
         /\ appId' = appId
         /\ appSecret' = appSecret]_vars

\* clearToken has run on a client that held a token, and both persisted
\* tokens are still there.
C5_Witness ==
  /\ proc[1].op = "clearToken" /\ proc[1].pc = "idle"
  /\ proc[1].entry.accessToken # 0
  /\ accessToken = 0
  /\ storedAccessToken # 0 /\ storedRefreshToken # 0

\* C6: when the response request finally handles has status 204, request
\* returns the empty object and has read no response body.
C6_NoContent ==
  \A p \in Callers :
    LET f == proc[p]
    IN  (f.op = "request" /\ f.statuses # <<>> /\ LastStatus(f) = 204) =>
          /\ f.pc = "idle"
          /\ f.result = Returned(0, EmptyObject)
          /\ f.bodyReads = 0

\* A request retried after a 401 and answered 204.
C6_Witness ==
  /\ proc[1].op = "request" /\ proc[1].pc = "idle"
  /\ proc[1].statuses = <<401, 204>>
  /\ ~proc[1].response.parseable
  /\ proc[1].result.kind = "return"

\* The response is the one request finally handles: not a first 401, which
\* is retried.
FinalStatus(f) ==
  /\ f.statuses # <<>>
  /\ ~(Len(f.statuses) = 1 /\ f.statuses[1] = 401)

\* C7: when the finally handled response is not 2xx, request throws the
\* parsed body with statusCode set to the status, or the empty object with
\* that statusCode when the body does not parse.
C7_ErrorBody ==
  \A p \in Callers :
    LET f == proc[p]
    IN  (f.op = "request" /\ FinalStatus(f) /\ ~Ok(LastStatus(f))) =>
          /\ f.pc = "idle"
          /\ f.result.kind = "throw"
          /\ f.result.value.statusCode = LastStatus(f)
          /\ f.response.parseable =>
               f.result.value =
                 [f.response.body EXCEPT !.statusCode = LastStatus(f)]
          /\ ~f.response.parseable =>
               f.result.value = [EmptyObject EXCEPT !.statusCode = LastStatus(f)]

\* A 500 whose body is not JSON.
C7_Witness ==
  /\ proc[1].op = "request" /\ proc[1].pc = "idle"
  /\ proc[1].statuses = <<500>>
  /\ ~proc[1].response.parseable
  /\ proc[1].result.kind = "throw"

\* C8: when the first response is not a 401, request has sent exactly one
\* API call and no token-endpoint call after it.
C8_NoOtherRetry ==
  \A p \in Callers :
    LET f == proc[p]
    IN  (f.op = "request" /\ f.statuses # <<>> /\ f.statuses[1] # 401) =>
          /\ f.pc = "idle"
          /\ Len(f.statuses) = 1
          /\ Cardinality(ApiCallsOf(f)) = 1
          /\ f.calls[Len(f.calls)].kind = "api"

\* A rate-limited request that had to authenticate first.
C8_Witness ==
  /\ proc[1].op = "request" /\ proc[1].pc = "idle"
  /\ proc[1].statuses = <<429>>
  /\ Len(proc[1].calls) = 3
  /\ proc[1].result.kind = "throw"
  /\ proc[1].result.value.statusCode = 429

\* C9: the handler writes exactly one payload, named by the first matching
\* shape: cli_error for a HelpScoutCliError (whatever its `error` field),
\* else the `error` value for an object with a truthy `error`, else
\* unknown_error with the message as detail for any other object, and
\* unknown_error with the generic detail for a non-object.
C9_Classification ==
  exited =>
    /\ Len(emitted) = 1
    /\ emitted[1].name =
         IF ~thrown.isObject THEN "unknown_error"
         ELSE IF thrown.isCli THEN "cli_error"
         ELSE IF thrown.error # "" THEN thrown.error
         ELSE "unknown_error"
    /\ ~thrown.isObject => emitted[1].detail = MsgUnexpected
    /\ (thrown.isObject /\ ~thrown.isCli /\ thrown.error = ""
          /\ thrown.message = MsgPlain) =>
         emitted[1].detail = MsgPlain

\* A HelpScoutCliError that carries an `error` field has been handled.
C9_Witness ==
  /\ exited
  /\ thrown.isCli /\ thrown.error = "not_found"
  /\ emitted[1].name = "cli_error"

\* The status table as the claim lists it.
C10_Table(name) ==
  CASE name = "bad_request" -> 400
    [] name = "unauthorized" -> 401
    [] name = "forbidden" -> 403
    [] name = "not_found" -> 404
    [] name = "conflict" -> 409
    [] name = "too_many_requests" -> 429
    [] name = "internal_server_error" -> 500
    [] name = "service_unavailable" -> 503
    [] OTHER -> 500

\* C10: the emitted statusCode is the thrown value's own statusCode when it
\* has one; else, for an API error, the table entry of its name, or 500;
\* else 1 for cli_error and unknown_error.
C10_StatusCode ==
  exited =>
    /\ Len(emitted) = 1
    /\ emitted[1].statusCode =
         IF thrown.statusCode # 0 THEN thrown.statusCode
         ELSE IF thrown.isObject /\ ~thrown.isCli /\ thrown.error # ""
           THEN C10_Table(thrown.error)
         ELSE 1

\* An API error named conflict, with no statusCode of its own.
C10_Witness ==
  /\ exited
  /\ thrown.isObject /\ ~thrown.isCli
  /\ thrown.error = "conflict" /\ thrown.statusCode = 0
  /\ emitted[1].statusCode = 409

\* s has sub as a substring: String.prototype.includes
Contains(s, sub) ==
  \E i \in 1..(Len(s) - Len(sub) + 1) : SubSeq(s, i, i + Len(sub) - 1) = sub

\* The joined texts of the _embedded.errors lists of Embeddeds.
C11_JoinedPath ==
  <<"S", "u", "b", "j", "e", "c", "t", " ", "i", "s", " ", "r", "e", "q",
    "u", "i", "r", "e", "d", ";", " ", "b", "o", "d", "y">>

C11_JoinedMessages ==
  <<"S", "u", "b", "j", "e", "c", "t", " ", "i", "s", " ", "r", "e", "q",
    "u", "i", "r", "e", "d", ";", " ", "B", "o", "d", "y", " ", "i", "s",
    " ", "r", "e", "q", "u", "i", "r", "e", "d">>

C11_Joined(embedded) ==
  CASE embedded = <<[message |-> MsgRequired, path |-> <<>>],
                    [message |-> <<>>, path |-> PathBody]>> -> C11_JoinedPath
    [] Len(embedded) = 4 -> C11_JoinedMessages
    [] OTHER -> <<>>

\* C11: sanitizeApiError takes its detail from error_description, else from
\* message, else from the _embedded.errors entries (message, or path when
\* there is no message) joined with '; ' without the blank ones, else it is
\* 'An error occurred'; the name is the `error` value or 'api_error'. The
\* detail is that text sanitized, which for a text with no secret and under
\* the cap is the text itself. {} and a non-object give the default pair.
C11_SanitizeApiError ==
  apiResult # <<>> =>
    LET r == apiResult[1]
        source ==
          IF ~thrown.isObject THEN MsgAnErrorOccurred
          ELSE IF thrown.error_description # <<>>
            THEN thrown.error_description
          ELSE IF thrown.message # <<>> THEN thrown.message
          ELSE IF thrown.embedded # <<>> THEN C11_Joined(thrown.embedded)
          ELSE MsgAnErrorOccurred
    IN  /\ r.name = IF thrown.isObject /\ thrown.error # ""
                      THEN thrown.error ELSE "api_error"
        /\ r.detail = sanitizeErrorMessage(source)
        /\ source \notin {MsgSecret, MsgLong} => r.detail = source
        /\ (thrown = NonObject
              \/ [thrown EXCEPT !.isCli = FALSE, !.statusCode = 0]
                   = EmptyObject) =>
             r = [name |-> "api_error", detail |-> MsgAnErrorOccurred]

\* A body with neither error_description nor message whose four
\* _embedded.errors entries, two of them blank, were joined.
C11_Witness ==
  /\ apiResult # <<>>
  /\ thrown.error_description = <<>> /\ thrown.message = <<>>
  /\ Len(thrown.embedded) = 4
  /\ apiResult[1].detail = C11_JoinedMessages
  /\ apiResult[1].name = "api_error"

\* C12: when a secret is written in a message as `Bearer <value>`,
\* `token=<value>`, `token:<value>`, `client_secret=<value>`,
\* `client-secret=<value>` or `authorization: bearer <value>`, in any letter
\* case, alone or with a second one, the sanitized message contains
\* [REDACTED] and contains none of the secrets.
C12_Redacts ==
  msgResult # <<>> =>
    /\ Contains(msgResult[1], Redacted)
    /\ \A v \in sample.secrets : ~Contains(msgResult[1], v)

\* No sensitive pattern matches anywhere in m.
C13_NoPattern(m) ==
  \A n \in 1..4 : \A i \in 1..Len(m) : sensitivePatterns(n, m, i) = 0

\* C13: the output of sanitizeErrorMessage is at most 503 characters long;
\* when the redacted message is longer than 500 characters the output is its
\* first 500 characters followed by '...'; a message with no sensitive
\* pattern and at most 500 characters long is returned unchanged.
C13_Length ==
  msgResult # <<>> =>
    LET m == sample.message
        out == msgResult[1]
        red == ReplaceAll(m)
    IN  /\ Len(out) <= 503
        /\ Len(red) > 500 =>
             /\ out = SubSeq(red, 1, 500) \o Ellipsis
             /\ Len(out) = 503
        /\ (C13_NoPattern(m) /\ Len(m) <= 500) => out = m

\* A message under the cap that the redaction made longer than the cap.
C13_Witness ==
  /\ msgResult # <<>>
  /\ Len(sample.message) <= 500
  /\ Len(msgResult[1]) = 503
  /\ SubSeq(msgResult[1], 501, 503) = Ellipsis

\* C14: the detail of every payload handleHelpScoutError writes is at most
\* 503 characters long, whatever was thrown and whatever its name,
\* too_many_requests with its rate-limit note included.
C14_DetailCap ==
  exited => \A i \in 1..Len(emitted) : Len(emitted[i].detail) <= 503

\* The command has ended after something went wrong: it had no field to
\* update, or its call of the client threw.
C15_Failed ==
  /\ command.pc \in {"done", "exited"}
  /\ ~command.hasFields \/ proc[1].result.kind = "throw"

\* C15: a command that fails, whether the API, the authentication, a local
\* validation (an update with no field) or anything else made it fail,
\* writes exactly one payload, of shape {name, detail, statusCode}, and the
\* process ends with a non-zero status; no success payload is written.
C15_OneErrorPayload ==
  C15_Failed =>
    /\ Len(emitted) = 1
    /\ {"name", "detail", "statusCode"} \subseteq DOMAIN emitted[1]
    /\ ExitStatus # 0

\* C16: a call of a method of the client either resolves with a value, which
\* the handler gets, or ends the process through handleHelpScoutError, which
\* has then written one canonical payload for the value request threw (an
\* authentication failure inside request included); the handler never gets
\* an exception from the client.
C16_NoRawException ==
  LET f == proc[1]
  IN  /\ command.observed # "exception"
      /\ (command.pc # "await" /\ f.result.kind = "throw") =>
           /\ command.pc = "exited" /\ command.observed = "none"
           /\ exited /\ ExitStatus = 1
           /\ thrown = f.result.value
           /\ Len(emitted) = 1
           /\ DOMAIN emitted[1] = {"name", "detail", "statusCode", "exitCode"}
      /\ command.observed = "value" =>
           /\ f.result.kind = "return"
           /\ ~exited

\* The configuration error that refreshAccessToken throws inside request has
\* ended the process as a cli_error.
C16_Witness ==
  /\ command.pc = "exited"
  /\ proc[1].result.kind = "throw" /\ proc[1].result.at = "rat_read"
  /\ proc[1].result.value.isCli
  /\ emitted[1].name = "cli_error" /\ emitted[1].statusCode = 401

\* The items of pages 1..n of listing l, in page order.
RECURSIVE C17_Pages(_, _)
C17_Pages(l, n) ==
  IF n = 0 THEN <<>> ELSE C17_Pages(l, n - 1) \o PageItems(l, n)

\* C17: for a listing that reports totalPages = N >= 1 the walker requests
\* pages 1, 2, ..., N in that order, each once, a request going out only
\* when every earlier one has been answered and consumed, and it returns the
\* items of the N pages in page order.
C17_PagesInOrder ==
  listing.totalPages >= 1 =>
    /\ walk.calls = [k \in 1..Len(walk.calls) |-> k]
    /\ Len(walk.calls) <= listing.totalPages
    /\ Len(walk.calls) =
         walk.consumed + (IF walk.pc \in {"await", "exited"} THEN 1 ELSE 0)
    /\ walk.items = C17_Pages(listing, walk.consumed)
    /\ walk.pc = "done" =>
         /\ walk.calls = [k \in 1..listing.totalPages |-> k]
         /\ walk.items = C17_Pages(listing, listing.totalPages)

\* Three pages of 50, 50 and 7 items have been walked: 107 items, 3 calls.
C17_Witness ==
  /\ walk.pc = "done"
  /\ listing.sizes = <<50, 50, 7>> /\ listing.totalPages = 3
  /\ Len(walk.items) = 107
  /\ walk.calls = <<1, 2, 3>>
  /\ walk.items[101] = [page |-> 3, index |-> 1]

\* C18: the walker ends, with its result or with the process, whatever the
\* listing; when it ends with its result it has made exactly one call if the
\* first page reported totalPages 0 or none, and else as many calls as
\* totalPages says, the last one for the page whose number is totalPages.
C18_Terminates ==
  /\ <>(walk.pc \in {"done", "exited"})
  /\ [](walk.pc = "done" =>
          /\ Len(walk.calls) = IF listing.totalPages = 0 THEN 1
                                ELSE listing.totalPages
          /\ walk.page = Len(walk.calls)
          /\ walk.consumed = Len(walk.calls))

\* A listing that reports no totalPages although it has three pages was
\* walked with one call.
C18_Witness ==
  /\ walk.pc = "done"
  /\ listing.totalPages = 0 /\ Len(listing.sizes) = 3
  /\ walk.calls = <<1>>

\* The number of embedded threads of a type.
C19_Count(type) ==
  Cardinality({i \in DOMAIN threads : threads[i].type = type})

\* Every field a participant has is taken from some thread of the type.
C19_FromType(participant, type) ==
  /\ participant.firstMessage # <<>> =>
       \E i \in DOMAIN threads :
         /\ threads[i].type = type
         /\ threads[i].body # <<>>
         /\ participant.firstMessage = <<htmlToPlainText(threads[i].body)>>
  /\ participant.email # <<>> =>
       \E i \in DOMAIN threads :
         /\ threads[i].type = type
         /\ participant.email[1] \in
              {threads[i].customer.email, threads[i].createdBy.email}
  /\ participant.name # <<>> =>
       \E i \in DOMAIN threads :
         /\ threads[i].type = type
         /\ participant.name \in
              {buildPersonName(threads[i].customer),
               buildPersonName(threads[i].createdBy)}

\* C19: customer.messageCount is the number of embedded threads of type
\* 'customer', with or without a body, and user.messageCount the number of
\* threads of type 'message'; a thread of any other type adds to neither
\* count and is never where a participant's name, email or firstMessage
\* comes from.
C19_MessageCounts ==
  threadInfo # <<>> =>
    /\ threadInfo[1].customer.messageCount = C19_Count("customer")
    /\ threadInfo[1].user.messageCount = C19_Count("message")
    /\ C19_FromType(threadInfo[1].customer, "customer")
    /\ C19_FromType(threadInfo[1].user, "message")
    /\ Fay.email \notin {e[1] : e \in {threadInfo[1].customer.email,
                                       threadInfo[1].user.email} \ {<<>>}}

\* A note with a body that is the earliest thread, a customer thread without
\* a body and a staff reply have been summarized.
C19_Witness ==
  /\ threadInfo # <<>>
  /\ Len(threads) = 3
  /\ threads[1].type = "note" /\ threads[1].createdAt = 1
  /\ threads[2].type = "customer" /\ threads[2].body = <<>>
  /\ threads[2].createdAt = 2
  /\ threads[3].type = "message" /\ threads[3].createdAt = 3
  /\ threadInfo[1].customer.messageCount = 1
  /\ threadInfo[1].user.messageCount = 1

\* The customer threads that have a body.
C20_WithBody ==
  {i \in DOMAIN threads :
     threads[i].type = "customer" /\ threads[i].body # <<>>}

\* The earliest of them; of several created at the same time, the first
\* in the list.
C20_Earliest ==
  CHOOSE i \in C20_WithBody :
    \A j \in C20_WithBody :
      \/ threads[i].createdAt < threads[j].createdAt
      \/ threads[i].createdAt = threads[j].createdAt /\ i <= j

\* The thread's `customer`, or its `createdBy` when it has none.
C20_Source(t) == IF t.customer.present THEN t.customer ELSE t.createdBy

\* C20: the customer participant is that of the earliest (by createdAt,
\* whatever the order of the list) customer thread with a non-empty body:
\* name and email come from the thread's `customer`, or from its `createdBy`
\* when there is none, and firstMessage is the plain text of its body.
C20_CustomerParticipant ==
  (threadInfo # <<>> /\ C20_WithBody # {}) =>
    /\ threadInfo[1].customer.name =
         buildName(C20_Source(threads[C20_Earliest]).first,
                   C20_Source(threads[C20_Earliest]).last)
    /\ threadInfo[1].customer.email =
         <<C20_Source(threads[C20_Earliest]).email>>
    /\ threadInfo[1].customer.firstMessage =
         <<htmlToPlainText(threads[C20_Earliest].body)>>

\* Customer bodies "", "Hello", "Follow-up" in ascending time, listed latest
\* first, give firstMessage "Hello" and messageCount 3.
C20_Witness ==
  /\ threadInfo # <<>>
  /\ Len(threads) = 3
  /\ \A i \in 1..3 : threads[i].type = "customer"
  /\ threads[1].body = BodyFollowUp /\ threads[1].createdAt = 3
  /\ threads[2].body = BodyHello /\ threads[2].createdAt = 2
  /\ threads[3].body = <<>> /\ threads[3].createdAt = 1
  /\ threadInfo[1].customer.firstMessage = <<BodyHello>>
  /\ threadInfo[1].customer.email = <<Ann.email>>
  /\ threadInfo[1].customer.messageCount = 3

\* The staff replies, and those of them that have a body.
C21_Staff == {i \in DOMAIN threads : threads[i].type = "message"}

C21_StaffWithBody == {i \in C21_Staff : threads[i].body # <<>>}

\* The most recent staff reply; of several created at the same time, the
\* last in the list.
C21_Latest ==
  CHOOSE i \in C21_Staff :
    \A j \in C21_Staff :
      \/ threads[i].createdAt > threads[j].createdAt
      \/ threads[i].createdAt = threads[j].createdAt /\ i >= j

\* The earliest staff reply with a body; of several created at the same
\* time, the first in the list.
C21_Earliest ==
  CHOOSE i \in C21_StaffWithBody :
    \A j \in C21_StaffWithBody :
      \/ threads[i].createdAt < threads[j].createdAt
      \/ threads[i].createdAt = threads[j].createdAt /\ i <= j

\* C21: the staff participant's name and email are those of the createdBy
\* of the most recent 'message' thread, with or without a body, and its
\* firstMessage is the plain text of the body of the earliest 'message'
\* thread that has one.
C21_StaffParticipant ==
  threadInfo # <<>> =>
    /\ C21_Staff # {} =>
         /\ threadInfo[1].user.name =
              buildName(threads[C21_Latest].createdBy.first,
                        threads[C21_Latest].createdBy.last)
         /\ threadInfo[1].user.email = <<threads[C21_Latest].createdBy.email>>
    /\ C21_StaffWithBody # {} =>
         threadInfo[1].user.firstMessage =
           <<htmlToPlainText(threads[C21_Earliest].body)>>

\* The identity and the first message come from different threads: the
\* latest staff reply, listed first, has no body and is Eve's; the earlier
\* one has a body and is Dee's.
C21_Witness ==
  /\ threadInfo # <<>>
  /\ Len(threads) = 2
  /\ threads[1].type = "message" /\ threads[1].body = <<>>
  /\ threads[1].createdAt = 3
  /\ threads[2].type = "message" /\ threads[2].body = BodyThanks
  /\ threads[2].createdAt = 1
  /\ threadInfo[1].user.email = <<Eve.email>>
  /\ threadInfo[1].user.firstMessage = <<BodyThanks>>

\* C22: for an absent or empty list of threads both participants have
\* messageCount 0 and no name, no email and no firstMessage.
C22_NoThreads ==
  (threadInfo # <<>> /\ threads = <<>>) =>
    \A participant \in {threadInfo[1].customer, threadInfo[1].user} :
      /\ participant.messageCount = 0
      /\ participant.name = <<>>
      /\ participant.email = <<>>
      /\ participant.firstMessage = <<>>

\* A conversation without threads has been summarized.
C22_Witness == threads = <<>> /\ threadInfo # <<>>

\* The number of conversations with a status.
C23_WithStatus(status) ==
  Cardinality({i \in DOMAIN conversations :
                 conversations[i].status = status})

\* The number of tag entries with a name, over all conversations.
C23_TagEntries(name) ==
  Cardinality({e \in UNION {{<<i, j>> : j \in DOMAIN conversations[i].tags} :
                             i \in DOMAIN conversations} :
                 conversations[e[1]].tags[e[2]].name = name})

C23_StatusesPresent ==
  {conversations[i].status : i \in DOMAIN conversations}

C23_TagsPresent ==
  UNION {{conversations[i].tags[j].name : j \in DOMAIN conversations[i].tags} :
         i \in DOMAIN conversations}

\* C23: either summarizer returns total = the number of conversations,
\* byStatus[s] = the number of conversations with status s, and byTag[t] =
\* the number of tag entries named t over all conversations.
C23_Aggregates ==
  \A i \in DOMAIN summaries :
    /\ summaries[i].result.total = Len(conversations)
    /\ DOMAIN summaries[i].result.byStatus = C23_StatusesPresent
    /\ \A status \in C23_StatusesPresent :
         summaries[i].result.byStatus[status] =
           Number(C23_WithStatus(status))
    /\ DOMAIN summaries[i].result.byTag = C23_TagsPresent
    /\ \A name \in C23_TagsPresent :
         summaries[i].result.byTag[name] = Number(C23_TagEntries(name))

C25_FirstMessages ==
  {m[1] : m \in {threadInfo[1].customer.firstMessage,
                  threadInfo[1].user.firstMessage} \ {<<>>}}

\* The plain text of the body of the one thread.
C25_Plain == htmlToPlainText(threads[1].body)

\* The text without the whitespace at its end.
C25_TrimEnd(text) ==
  SubSeq(text, 1,
         Least({n \in 0..Len(text) :
                  \A i \in (n + 1)..Len(text) : text[i] \in SpaceChars}, 0))

\* The text without the whitespace at either end.
C25_TrimBoth(text) ==
  C25_TrimEnd(SubSeq(text,
                     Least({i \in 1..Len(text) : text[i] \notin SpaceChars},
                           Len(text) + 1),
                     Len(text)))

\* C25 as stated: a firstMessage is never longer than 303 characters; a
\* plain text of at most 300 characters is returned unchanged, a longer one
\* is cut to its first 300 characters, the whitespace at the end trimmed
\* and '...' appended.
C25_TrailingTrimmed ==
  (threadInfo # <<>> /\ Len(threads) = 1) =>
    \A message \in C25_FirstMessages :
      /\ Len(message) <= MAX_MESSAGE_LENGTH + Len(Ellipsis)
      /\ message =
           IF Len(C25_Plain) <= MAX_MESSAGE_LENGTH THEN C25_Plain
           ELSE C25_TrimEnd(SubSeq(C25_Plain, 1, MAX_MESSAGE_LENGTH))
                  \o Ellipsis

\* C25 amended: a firstMessage is never longer than 303 characters; a
\* plain text of at most 300 characters is returned unchanged, a longer one
\* is cut to its first 300 characters, the whitespace at both ends trimmed
\* and '...' appended.
C25_Trimmed ==
  (threadInfo # <<>> /\ Len(threads) = 1) =>
    \A message \in C25_FirstMessages :
      /\ Len(message) <= MAX_MESSAGE_LENGTH + Len(Ellipsis)
      /\ message =
           IF Len(C25_Plain) <= MAX_MESSAGE_LENGTH THEN C25_Plain
           ELSE C25_TrimBoth(SubSeq(C25_Plain, 1, MAX_MESSAGE_LENGTH))
                  \o Ellipsis

\* A body of two blanks, 296 letters, two blanks and five letters has been
\* cut inside the second run of blanks: 296 letters and '...' are left.
C25_Witness ==
  /\ threadInfo # <<>>
  /\ Len(threads) = 1
  /\ threads[1].type = "customer"
  /\ threads[1].body = CutBody(2, MAX_MESSAGE_LENGTH - 4, 2, 5)
  /\ threadInfo[1].customer.firstMessage =
       <<Run(MAX_MESSAGE_LENGTH - 4, "x") \o Ellipsis>>

\* The tags of a list.
C26_Names(list) == {list[i] : i \in DOMAIN list}

\* C26: after a tag is added the conversation has its previous tags and the
\* new one; after a tag is removed it has every other tag it had.
C26_TagsKept ==
  tagOp.ok =>
    /\ tagOp.op = "add" =>
         C26_Names(remoteTags) = C26_Names(tagOp.before) \cup {tagOp.tag}
    /\ tagOp.op = "remove" =>
         C26_Names(remoteTags) = C26_Names(tagOp.before) \ {tagOp.tag}

\* --yes was given or the operator answered 'y' or 'Y'.
C27_Confirmed ==
  deletion.yes \/ deletion.answer \in {<<"y">>, <<"Y">>}

\* C27: `customers delete` issues the DELETE call only if --yes was given
\* or the answer to the prompt was 'y' or 'Y'; after any other answer, the
\* empty one included, there is no call, the account holds the customers it
\* held and nothing has been written.
C27_DeleteConfirmed ==
  /\ deletion.calls # <<>> => C27_Confirmed
  /\ (deletion.pc \notin {"none", "start", "prompt"} /\ ~C27_Confirmed) =>
       /\ deletion.calls = <<>>
       /\ remoteCustomers = deletion.before
       /\ emitted = <<>>

\* Without --yes, the operator answered 'Y' and the customer was deleted.
C27_Witness ==
  /\ ~deletion.yes
  /\ deletion.pc = "done"
  /\ deletion.answer = <<"Y">>
  /\ deletion.calls = <<deletion.id>>
  /\ deletion.id \in deletion.before \ remoteCustomers
  /\ emitted = <<[message |-> MsgCustomerDeleted]>>

C29_ApiCalls(f) == SelectSeq(f.calls, LAMBDA c : c.kind = "api")

\* A completed request whose first API call was answered 401 and whose
\* forced re-authentication returned no token.
C29_ReauthFailed(f) ==
  /\ f.op = "request"
  /\ f.pc = "idle"
  /\ f.statuses # <<>>
  /\ f.statuses[1] = 401
  /\ f.reauth = 0

\* C29: when the forced re-authentication after a 401 fails, request
\* throws the error of the re-authentication without a second API call,
\* the cached token is empty and the persisted access and refresh tokens
\* are those of before the re-authentication.
C29_FailedReauth ==
  \A p \in Command :
    C29_ReauthFailed(proc[p]) =>
      /\ proc[p].result.kind = "throw"
      /\ proc[p].result.at \in {"rat_read", "rat_cc_resp"}
      /\ Len(C29_ApiCalls(proc[p])) = 1
      /\ accessToken = 0
      /\ storedAccessToken = proc[p].ratEntry.storedAccessToken
      /\ storedRefreshToken = proc[p].ratEntry.storedRefreshToken

\* After a 401 the refresh grant and the client_credentials grant have both
\* failed, over a token that was cached when the request began.
C29_Witness ==
  /\ C29_ReauthFailed(proc[1])
  /\ proc[1].grants = <<"refresh_token", "client_credentials">>
  /\ proc[1].entry.accessToken # 0
  /\ accessToken = 0

\* Both requests have completed, and both got a 401 and a new token.
C30_BothDone ==
  \A p \in Callers :
    /\ proc[p].pc = "idle"
    /\ proc[p].op = "request"
    /\ Len(proc[p].statuses) >= 1
    /\ proc[p].statuses[1] = 401
    /\ proc[p].reauth # 0

\* C30: of two interleaved requests on the shared client that both get a
\* 401, each makes at most two API calls and sends no empty token, and when
\* both have completed the cached token is the persisted access token.
C30_Interleaved ==
  /\ \A p \in Callers :
       /\ Len(C29_ApiCalls(proc[p])) <= 2
       /\ \A i \in DOMAIN proc[p].calls :
            proc[p].calls[i].kind = "api" => proc[p].calls[i].token # 0
  /\ C30_BothDone => accessToken = storedAccessToken

====
